---- MODULE Spec2Model ----
(***************************************************************************)
(* Avicenna tracker: the AI usage ledger (tracker/models.py AIUsage), the  *)
(* quota check and usage recording of tracker/rate_limit.py, and the       *)
(* request handlers of tracker/views.py that use them.                     *)
(*                                                                         *)
(* Time is a count of clock ticks since the epoch (UTC, settings.py        *)
(* TIME_ZONE = 'UTC', USE_TZ = True).  An hour is TicksPerHour ticks, a    *)
(* day HoursPerDay hours, a month DaysPerMonth days and a year             *)
(* MonthsPerYear months, so that hour, midnight, month and year boundaries *)
(* all fall inside the explored horizon.                                   *)
(***************************************************************************)
EXTENDS Integers, Sequences, FiniteSets, TLC

\* ---- bounds of the explored model ----
MaxNow == 8
MaxEvents == 3
MaxLimit == 2
NumSlots == 2
TicksPerHour == 1
HoursPerDay == 2
DaysPerMonth == 2
MonthsPerYear == 2
MaxRows == 2
LedgerRows == 1
MaxDate == 1

TicksPerDay == TicksPerHour * HoursPerDay
TicksPerMonth == TicksPerDay * DaysPerMonth
TicksPerYear == TicksPerMonth * MonthsPerYear

Users == {"u1", "u2"}
Slots == 1..NumSlots
NoUser == "nobody"

\* request.FILES['image'] / request.POST['text'] of an ai_parse_food request:
\* nothing usable, a non-blank text, an image, an image above 10MB
Inputs == {"none", "text", "image", "big_image"}

\* what the try block of ai_parse_food runs into once the service exists
Outcomes == {"ok", "error", "raise"}

VARIABLES now, usage, special, ai_enabled, limits, api_key, req,
          dietary, exercise, weight, seq, stdout, partner, accounts

\* the AI side: clock, usage ledger, group, profile flag, settings, environment,
\* requests in flight
aiVars == <<now, usage, special, ai_enabled, limits, api_key, req>>

\* the tracked entries: the three tables, their primary-key sequences, and the
\* last output of the clear_data management command
entryVars == <<dietary, exercise, weight, seq, stdout>>

\* the accounts: the users that exist and the partner link of each profile
accountVars == <<partner, accounts>>

vars == <<now, usage, special, ai_enabled, limits, api_key, req,
          dietary, exercise, weight, seq, stdout, partner, accounts>>

\* ---- calendar (django.utils.timezone / ORM date lookups) ----
DateOf(t) == t \div TicksPerDay
YearOf(t) == t \div TicksPerYear
MonthOf(t) == (t % TicksPerYear) \div TicksPerMonth

Max0(n) == IF n > 0 THEN n ELSE 0

\* ---- AIUsage queries ----
UserRows(u) == {i \in 1..Len(usage) : usage[i].user = u}

\* faulty variant: the cutoff compared with > (an event exactly one hour old dropped)
get_usage_count_strict(u, hours) ==
    LET cutoff == now - hours * TicksPerHour
    IN Cardinality({i \in UserRows(u) : usage[i].timestamp > cutoff})

\* faulty variant: the user filter left out of the query
get_usage_count_all_users(u, hours) ==
    LET cutoff == now - hours * TicksPerHour
    IN Cardinality({i \in 1..Len(usage) : usage[i].timestamp >= cutoff})

get_usage_count(u, hours) ==
    LET cutoff == now - hours * TicksPerHour
    IN Cardinality({i \in UserRows(u) : usage[i].timestamp >= cutoff})

\* faulty variant: only the successful events of today are counted
get_daily_count_successful_only(u) ==
    LET today == DateOf(now)
    IN Cardinality({i \in UserRows(u) :
           DateOf(usage[i].timestamp) = today /\ usage[i].success})

get_daily_count(u) ==
    LET today == DateOf(now)
    IN Cardinality({i \in UserRows(u) : DateOf(usage[i].timestamp) = today})

\* faulty variant: the month is compared without the year
get_monthly_count_any_year(u) ==
    Cardinality({i \in UserRows(u) : MonthOf(usage[i].timestamp) = MonthOf(now)})

get_monthly_count(u) ==
    Cardinality({i \in UserRows(u) :
        /\ YearOf(usage[i].timestamp) = YearOf(now)
        /\ MonthOf(usage[i].timestamp) = MonthOf(now)})

\* ---- rate_limit.py ----
Unlimited == 999999

get_rate_limits == limits

\* faulty variant: the group lookup never finds the user
is_special_user_never(u) == FALSE

is_special_user(u) == u \in special

UnlimitedRemaining ==
    [hourly_remaining |-> Unlimited, daily_remaining |-> Unlimited,
     monthly_remaining |-> Unlimited, unlimited |-> TRUE]

Remaining(h, d, m) ==
    [hourly_remaining |-> h, daily_remaining |-> d,
     monthly_remaining |-> m, unlimited |-> FALSE]

MsgHourly == "Rate limit exceeded: requests per hour"
MsgDaily == "Daily limit exceeded: requests per day"
MsgMonthly == "Monthly limit exceeded: requests per month"
NoMsg == "None"

\* faulty variant: every ceiling compared with > instead of >=
check_rate_limit_strict(u) ==
    IF is_special_user(u)
    THEN [allowed |-> TRUE, error_msg |-> NoMsg, remaining |-> UnlimitedRemaining]
    ELSE
    LET lim == get_rate_limits
        hourly_count == get_usage_count(u, 1)
        daily_count == get_daily_count(u)
        monthly_count == get_monthly_count(u)
    IN  IF hourly_count > lim.hourly
        THEN [allowed |-> FALSE, error_msg |-> MsgHourly,
              remaining |-> Remaining(0,
                                      Max0(lim.daily - daily_count),
                                      Max0(lim.monthly - monthly_count))]
        ELSE IF daily_count > lim.daily
        THEN [allowed |-> FALSE, error_msg |-> MsgDaily,
              remaining |-> Remaining(Max0(lim.hourly - hourly_count),
                                      0,
                                      Max0(lim.monthly - monthly_count))]
        ELSE IF monthly_count > lim.monthly
        THEN [allowed |-> FALSE, error_msg |-> MsgMonthly,
              remaining |-> Remaining(Max0(lim.hourly - hourly_count),
                                      Max0(lim.daily - daily_count),
                                      0)]
        ELSE [allowed |-> TRUE, error_msg |-> NoMsg,
              remaining |-> Remaining(Max0(lim.hourly - hourly_count),
                                      Max0(lim.daily - daily_count),
                                      Max0(lim.monthly - monthly_count))]

\* faulty variant: the daily ceiling compared before the hourly one
check_rate_limit_daily_first(u) ==
    IF is_special_user(u)
    THEN [allowed |-> TRUE, error_msg |-> NoMsg, remaining |-> UnlimitedRemaining]
    ELSE
    LET lim == get_rate_limits
        hourly_count == get_usage_count(u, 1)
        daily_count == get_daily_count(u)
        monthly_count == get_monthly_count(u)
    IN  IF daily_count >= lim.daily
        THEN [allowed |-> FALSE, error_msg |-> MsgDaily,
              remaining |-> Remaining(Max0(lim.hourly - hourly_count),
                                      0,
                                      Max0(lim.monthly - monthly_count))]
        ELSE IF hourly_count >= lim.hourly
        THEN [allowed |-> FALSE, error_msg |-> MsgHourly,
              remaining |-> Remaining(0,
                                      Max0(lim.daily - daily_count),
                                      Max0(lim.monthly - monthly_count))]
        ELSE IF monthly_count >= lim.monthly
        THEN [allowed |-> FALSE, error_msg |-> MsgMonthly,
              remaining |-> Remaining(Max0(lim.hourly - hourly_count),
                                      Max0(lim.daily - daily_count),
                                      0)]
        ELSE [allowed |-> TRUE, error_msg |-> NoMsg,
              remaining |-> Remaining(Max0(lim.hourly - hourly_count),
                                      Max0(lim.daily - daily_count),
                                      Max0(lim.monthly - monthly_count))]

\* faulty variant: a rejection reports 0 for the windows it did not reject on
check_rate_limit_no_backfill(u) ==
    IF is_special_user(u)
    THEN [allowed |-> TRUE, error_msg |-> NoMsg, remaining |-> UnlimitedRemaining]
    ELSE
    LET lim == get_rate_limits
        hourly_count == get_usage_count(u, 1)
        daily_count == get_daily_count(u)
        monthly_count == get_monthly_count(u)
    IN  IF hourly_count >= lim.hourly
        THEN [allowed |-> FALSE, error_msg |-> MsgHourly, remaining |-> Remaining(0, 0, 0)]
        ELSE IF daily_count >= lim.daily
        THEN [allowed |-> FALSE, error_msg |-> MsgDaily, remaining |-> Remaining(0, 0, 0)]
        ELSE IF monthly_count >= lim.monthly
        THEN [allowed |-> FALSE, error_msg |-> MsgMonthly, remaining |-> Remaining(0, 0, 0)]
        ELSE [allowed |-> TRUE, error_msg |-> NoMsg,
              remaining |-> Remaining(Max0(lim.hourly - hourly_count),
                                      Max0(lim.daily - daily_count),
                                      Max0(lim.monthly - monthly_count))]

check_rate_limit(u) ==
    IF is_special_user(u)
    THEN [allowed |-> TRUE, error_msg |-> NoMsg, remaining |-> UnlimitedRemaining]
    ELSE
    LET lim == get_rate_limits
        hourly_count == get_usage_count(u, 1)
        daily_count == get_daily_count(u)
        monthly_count == get_monthly_count(u)
    IN  IF hourly_count >= lim.hourly
        THEN [allowed |-> FALSE, error_msg |-> MsgHourly,
              remaining |-> Remaining(0,
                                      Max0(lim.daily - daily_count),
                                      Max0(lim.monthly - monthly_count))]
        ELSE IF daily_count >= lim.daily
        THEN [allowed |-> FALSE, error_msg |-> MsgDaily,
              remaining |-> Remaining(Max0(lim.hourly - hourly_count),
                                      0,
                                      Max0(lim.monthly - monthly_count))]
        ELSE IF monthly_count >= lim.monthly
        THEN [allowed |-> FALSE, error_msg |-> MsgMonthly,
              remaining |-> Remaining(Max0(lim.hourly - hourly_count),
                                      Max0(lim.daily - daily_count),
                                      0)]
        ELSE [allowed |-> TRUE, error_msg |-> NoMsg,
              remaining |-> Remaining(Max0(lim.hourly - hourly_count),
                                      Max0(lim.daily - daily_count),
                                      Max0(lim.monthly - monthly_count))]

\* get_user_quota_info: the figures behind ai_quota_status
get_user_quota_info(u) ==
    LET hourly_count == get_usage_count(u, 1)
        daily_count == get_daily_count(u)
        monthly_count == get_monthly_count(u)
        counts == [hourly |-> hourly_count, daily |-> daily_count,
                   monthly |-> monthly_count]
    IN  IF is_special_user(u)
        THEN [unlimited |-> TRUE, usage |-> counts,
              remaining |-> [hourly |-> Unlimited, daily |-> Unlimited,
                             monthly |-> Unlimited]]
        ELSE LET lim == get_rate_limits
             IN [unlimited |-> FALSE, usage |-> counts,
                 remaining |-> [hourly |-> Max0(lim.hourly - hourly_count),
                                daily |-> Max0(lim.daily - daily_count),
                                monthly |-> Max0(lim.monthly - monthly_count)]]

\* AIUsage.objects.create(...): timestamp is auto_now_add, tokens_used is
\* never passed by a caller and keeps its default
log_ai_usage(u, request_type, success, error_message) ==
    Append(usage, [user |-> u, timestamp |-> now, request_type |-> request_type,
                   success |-> success, error_message |-> error_message,
                   tokens_used |-> 0])

\* ---- requests in flight (one worker per slot) ----
IdleReq == [pc |-> "idle", user |-> NoUser, input |-> "none",
            remaining |-> Remaining(0, 0, 0)]

InFlight == {s \in Slots : req[s].pc = "checked"}

RequestType(input) == IF input \in {"image", "big_image"} THEN "image" ELSE "text"

ErrNoKey == "OPENAI_API_KEY environment variable is not set"
ErrTooLarge == "Image too large"
ErrAI == "AI service error"
ErrRaised == "exception"

NoOutput == [kind |-> "none", dietary |-> 0, exercise |-> 0, weight |-> 0]

\* the state behind every specification: nobody is in the 'special' group,
\* every profile has the default ai_enabled = False, the ledger is empty;
\* the ceilings come from settings and the API key from the environment
InitStore ==
    /\ now = 0
    /\ usage = << >>
    /\ special = {}
    /\ ai_enabled = [u \in Users |-> FALSE]
    /\ limits \in [hourly : 0..MaxLimit, daily : 0..MaxLimit, monthly : 0..MaxLimit]
    /\ req = [s \in Slots |-> IdleReq]
    /\ dietary = {}
    /\ exercise = {}
    /\ weight = {}
    /\ seq = [dietary |-> 0, exercise |-> 0, weight |-> 0]
    /\ stdout = NoOutput
    /\ partner = [u \in Users |-> NoUser]
    /\ accounts = Users

Init ==
    /\ InitStore
    /\ api_key = TRUE

\* the wall clock advances (explored up to the instant horizon)
TickUntil(horizon) ==
    /\ now < horizon
    /\ now' = now + 1
    /\ UNCHANGED <<usage, special, ai_enabled, limits, api_key, req>>
    /\ UNCHANGED entryVars
    /\ UNCHANGED accountVars

Tick == TickUntil(MaxNow)

\* admin: user.groups.add(special) / user.groups.remove(special)
AddSpecial(u) ==
    /\ u \notin special
    /\ special' = special \cup {u}
    /\ UNCHANGED <<now, usage, ai_enabled, limits, api_key, req>>
    /\ UNCHANGED entryVars
    /\ UNCHANGED accountVars

RemoveSpecial(u) ==
    /\ u \in special
    /\ special' = special \ {u}
    /\ UNCHANGED <<now, usage, ai_enabled, limits, api_key, req>>
    /\ UNCHANGED entryVars
    /\ UNCHANGED accountVars

\* admin: UserProfileInline edits profile.ai_enabled
SetAIEnabled(u, b) ==
    /\ ai_enabled[u] # b
    /\ ai_enabled' = [ai_enabled EXCEPT ![u] = b]
    /\ UNCHANGED <<now, usage, special, limits, api_key, req>>
    /\ UNCHANGED entryVars
    /\ UNCHANGED accountVars

ErrNotEnabled == "AI features not enabled for your account"

\* ai_parse_food, the answer decided before the try block: 403 behind the
\* ai_enabled gate, 429 with the check's message and remaining on a rejection,
\* otherwise the request goes on (status 200 stands for "not answered yet")
ParseFoodGate(u) ==
    IF ~ai_enabled[u]
    THEN [status |-> 403, success |-> FALSE, error |-> ErrNotEnabled,
          rate_limit |-> FALSE, remaining |-> Remaining(0, 0, 0)]
    ELSE LET r == check_rate_limit(u)
         IN IF ~r.allowed
            THEN [status |-> 429, success |-> FALSE, error |-> r.error_msg,
                  rate_limit |-> TRUE, remaining |-> r.remaining]
            ELSE [status |-> 200, success |-> TRUE, error |-> NoMsg,
                  rate_limit |-> FALSE, remaining |-> r.remaining]

\* faulty variant: a rejected request is logged as a failed usage event
ParseFoodCheck_logs_rejected(s, u, input) ==
    /\ req[s].pc = "idle"
    /\ IF ~ai_enabled[u]
       THEN UNCHANGED <<req, usage>>
       ELSE LET r == check_rate_limit(u)
            IN IF ~r.allowed
               THEN /\ Len(usage) < MaxEvents
                    /\ usage' = log_ai_usage(u, RequestType(input), FALSE, r.error_msg)
                    /\ UNCHANGED req
               ELSE /\ Len(usage) + Cardinality(InFlight) < MaxEvents
                    /\ req' = [req EXCEPT ![s] = [pc |-> "checked", user |-> u,
                                                  input |-> input,
                                                  remaining |-> r.remaining]]
                    /\ UNCHANGED usage
    /\ UNCHANGED <<now, special, ai_enabled, limits, api_key>>
    /\ UNCHANGED entryVars
    /\ UNCHANGED accountVars

\* faulty variant: the quota check itself writes a usage row
ParseFoodCheck_logs(s, u, input) ==
    /\ req[s].pc = "idle"
    /\ ai_enabled[u]
    /\ Len(usage) + Cardinality(InFlight) < MaxEvents
    /\ usage' = log_ai_usage(u, RequestType(input), TRUE, "")
    /\ UNCHANGED <<now, special, ai_enabled, limits, api_key, req>>
    /\ UNCHANGED entryVars
    /\ UNCHANGED accountVars

\* ai_parse_food, up to and including the quota check: the 403 and 429
\* answers end the request, an allowed request goes on to the try block
ParseFoodCheck(s, u, input) ==
    /\ req[s].pc = "idle"
    /\ IF ~ai_enabled[u]
       THEN UNCHANGED req
       ELSE LET r == check_rate_limit(u)
            IN IF ~r.allowed
               THEN UNCHANGED req
               ELSE /\ Len(usage) + Cardinality(InFlight) < MaxEvents
                    /\ req' = [req EXCEPT ![s] = [pc |-> "checked", user |-> u,
                                                  input |-> input,
                                                  remaining |-> r.remaining]]
    /\ UNCHANGED <<now, usage, special, ai_enabled, limits, api_key>>
    /\ UNCHANGED entryVars
    /\ UNCHANGED accountVars

\* faulty variant: an oversized image returns before anything is logged
ParseFoodFinish_skips_big(s, outcome) ==
    /\ req[s].pc = "checked"
    /\ LET u == req[s].user
           input == req[s].input
           request_type == RequestType(input)
       IN  IF ~api_key
           THEN usage' = log_ai_usage(u, request_type, FALSE, ErrNoKey)
           ELSE IF outcome = "raise"
           THEN usage' = log_ai_usage(u, request_type, FALSE, ErrRaised)
           ELSE IF input \in {"big_image", "none"}
           THEN UNCHANGED usage
           ELSE IF outcome = "ok"
           THEN usage' = log_ai_usage(u, request_type, TRUE, "")
           ELSE usage' = log_ai_usage(u, request_type, FALSE, ErrAI)
    /\ req' = [req EXCEPT ![s] = IdleReq]
    /\ UNCHANGED <<now, special, ai_enabled, limits, api_key>>
    /\ UNCHANGED entryVars
    /\ UNCHANGED accountVars

\* ai_parse_food, the try block: build the service, run the AI call, log
ParseFoodFinish(s, outcome) ==
    /\ req[s].pc = "checked"
    /\ LET u == req[s].user
           input == req[s].input
           request_type == RequestType(input)
       IN  IF ~api_key
           THEN usage' = log_ai_usage(u, request_type, FALSE, ErrNoKey)
           ELSE IF outcome = "raise"
           THEN usage' = log_ai_usage(u, request_type, FALSE, ErrRaised)
           ELSE IF input = "big_image"
           THEN usage' = log_ai_usage(u, request_type, FALSE, ErrTooLarge)
           ELSE IF input = "none"
           THEN UNCHANGED usage
           ELSE IF outcome = "ok"
           THEN usage' = log_ai_usage(u, request_type, TRUE, "")
           ELSE usage' = log_ai_usage(u, request_type, FALSE, ErrAI)
    /\ req' = [req EXCEPT ![s] = IdleReq]
    /\ UNCHANGED <<now, special, ai_enabled, limits, api_key>>
    /\ UNCHANGED entryVars
    /\ UNCHANGED accountVars

\* faulty variant: the remaining quota is computed anew when the answer is
\* built, after the usage event was written
ParseFoodResponse_after_record(s, outcome) ==
    LET input == req[s].input
    IN  IF ~api_key \/ outcome = "raise" \/ input \in {"big_image", "none"}
        THEN [success |-> FALSE, has_remaining |-> FALSE, remaining |-> Remaining(0, 0, 0)]
        ELSE [success |-> outcome = "ok", has_remaining |-> TRUE,
              remaining |->
                 Remaining(Max0(req[s].remaining.hourly_remaining - 1),
                           Max0(req[s].remaining.daily_remaining - 1),
                           Max0(req[s].remaining.monthly_remaining - 1))]

\* the answer of an ai_parse_food request that passed the quota check: the
\* service's result with result['remaining'] = remaining, the triple of the
\* check; the answers built in the except branches and the early returns
\* carry no remaining
ParseFoodResponse(s, outcome) ==
    LET input == req[s].input
    IN  IF ~api_key \/ outcome = "raise" \/ input \in {"big_image", "none"}
        THEN [success |-> FALSE, has_remaining |-> FALSE, remaining |-> Remaining(0, 0, 0)]
        ELSE [success |-> outcome = "ok", has_remaining |-> TRUE,
              remaining |-> req[s].remaining]

\* ---- tracked entries (views.py) ----
\* A JSON document as import_json and ai_save_food see it.  kind: "empty" (no
\* json_data), "invalid" (json.loads fails), "scalar" (neither list nor
\* object), "dict" (one day object, held as the single element of days) or
\* "list".  A day or an item that is not an object has dict = FALSE; a date is
\* "ok", "missing" (absent or falsy), "unparseable" (a string strptime rejects
\* with ValueError) or "nonstring" (a truthy value that is not a string, on
\* which strptime raises TypeError); an item whose value the integer column
\* cannot take has storable = FALSE.  A day holds its 'dietary', 'food' and
\* 'exercise' lists.
DietItem(c) == [dict |-> TRUE, storable |-> TRUE, calories |-> c]
ExItem(m, b) == [dict |-> TRUE, storable |-> TRUE, duration_minutes |-> m,
                 calories_burned |-> b]
NotAnItem == [dict |-> FALSE, storable |-> TRUE, calories |-> 0]
DayOn(d, food, ex) == [dict |-> TRUE, date |-> [kind |-> "ok", day |-> d],
                       dietary |-> food, food |-> << >>, exercise |-> ex]
DayFood(d, dietary_list, food_list, ex) ==
    [dict |-> TRUE, date |-> [kind |-> "ok", day |-> d],
     dietary |-> dietary_list, food |-> food_list, exercise |-> ex]
DayWithDate(k, food, ex) == [dict |-> TRUE, date |-> [kind |-> k, day |-> 0],
                             dietary |-> food, food |-> << >>, exercise |-> ex]
NotADay == [dict |-> FALSE, date |-> [kind |-> "missing", day |-> 0],
            dietary |-> << >>, food |-> << >>, exercise |-> << >>]

\* faulty variant: the 'food' list is never read
FoodItems_dietary_only(entry) == entry.dietary

\* food_items = entry.get('dietary') or entry.get('food') or []
FoodItems(entry) == IF entry.dietary # << >> THEN entry.dietary ELSE entry.food
Doc(k, days) == [kind |-> k, days |-> days]

ImportStart ==
    [dietary |-> dietary, exercise |-> exercise, seq |-> seq,
     dietary_count |-> 0, exercise_count |-> 0, skipped_days |-> 0,
     failed |-> FALSE]

\* for item in food_items: DietaryEntry.objects.create(...); a create that
\* raises leaves the loops, the rows created before it stay
RECURSIVE CreateDietaryItems(_, _, _, _)
CreateDietaryItems(st, u, d, items) ==
    IF items = << >> \/ st.failed THEN st
    ELSE LET item == Head(items)
         IN  IF ~item.dict THEN CreateDietaryItems(st, u, d, Tail(items))
             ELSE IF ~item.storable THEN [st EXCEPT !.failed = TRUE]
             ELSE CreateDietaryItems(
                    [st EXCEPT !.dietary = @ \cup {[id |-> st.seq.dietary + 1, user |-> u,
                                                    date |-> d, calories |-> item.calories]},
                               !.seq.dietary = @ + 1,
                               !.dietary_count = @ + 1],
                    u, d, Tail(items))

RECURSIVE CreateExerciseItems(_, _, _, _)
CreateExerciseItems(st, u, d, items) ==
    IF items = << >> \/ st.failed THEN st
    ELSE LET ex == Head(items)
         IN  IF ~ex.dict THEN CreateExerciseItems(st, u, d, Tail(items))
             ELSE IF ~ex.storable THEN [st EXCEPT !.failed = TRUE]
             ELSE CreateExerciseItems(
                    [st EXCEPT !.exercise = @ \cup {[id |-> st.seq.exercise + 1, user |-> u,
                                                     date |-> d,
                                                     duration_minutes |-> ex.duration_minutes,
                                                     calories_burned |-> ex.calories_burned]},
                               !.seq.exercise = @ + 1,
                               !.exercise_count = @ + 1],
                    u, d, Tail(items))

\* for entry in data: the day loop shared by import_json and ai_save_food
RECURSIVE ImportDays(_, _, _)
ImportDays(st, u, days) ==
    IF days = << >> \/ st.failed THEN st
    ELSE LET entry == Head(days)
         IN  IF ~entry.dict \/ entry.date.kind \in {"missing", "unparseable"}
             THEN ImportDays([st EXCEPT !.skipped_days = @ + 1], u, Tail(days))
             ELSE IF entry.date.kind = "nonstring"
             THEN [st EXCEPT !.failed = TRUE]
             ELSE ImportDays(
                    CreateExerciseItems(
                        CreateDietaryItems(st, u, entry.date.day, FoodItems(entry)),
                        u, entry.date.day, entry.exercise),
                    u, Tail(days))

\* faulty variant: a failing import is rolled back, only the primary keys it
\* used stay used
ImportResult_rolled_back(u, data) ==
    LET st == IF data.kind = "list" THEN ImportDays(ImportStart, u, data.days)
              ELSE ImportStart
    IN  IF st.failed THEN [ImportStart EXCEPT !.seq = st.seq, !.failed = TRUE] ELSE st

ImportResult(u, data) ==
    IF data.kind = "list" THEN ImportDays(ImportStart, u, data.days) ELSE ImportStart

ImportJsonResponse(u, data) ==
    LET st == ImportResult(u, data)
    IN  [success |-> data.kind = "list" /\ ~st.failed,
         dietary_count |-> st.dietary_count,
         exercise_count |-> st.exercise_count,
         skipped_days |-> st.skipped_days]

\* import_json (login required)
ImportJson(u, data) ==
    LET st == ImportResult(u, data)
    IN  /\ st.seq.dietary <= MaxRows
        /\ st.seq.exercise <= MaxRows
        /\ dietary' = st.dietary
        /\ exercise' = st.exercise
        /\ seq' = st.seq
        /\ UNCHANGED <<weight, stdout>>
        /\ UNCHANGED aiVars
        /\ UNCHANGED accountVars

SaveResult(u, data) ==
    IF data.kind \in {"list", "dict"} THEN ImportDays(ImportStart, u, data.days)
    ELSE ImportStart

AISaveFoodResponse(u, data) ==
    LET st == SaveResult(u, data)
    IN  IF ~ai_enabled[u] THEN [status |-> 403, success |-> FALSE]
        ELSE [status |-> 200,
              success |-> ~st.failed /\ st.dietary_count + st.exercise_count > 0]

\* faulty variant: the ai_enabled gate is missing
AISaveFood_ungated(u, data) ==
    LET st == SaveResult(u, data)
    IN  /\ st.seq.dietary <= MaxRows
        /\ st.seq.exercise <= MaxRows
        /\ dietary' = st.dietary
        /\ exercise' = st.exercise
        /\ seq' = st.seq
        /\ UNCHANGED <<weight, stdout>>
        /\ UNCHANGED aiVars
        /\ UNCHANGED accountVars

\* ai_save_food: behind the ai_enabled gate, then the same loops
AISaveFood(u, data) ==
    LET st == SaveResult(u, data)
    IN  /\ IF ~ai_enabled[u]
           THEN UNCHANGED <<dietary, exercise, seq>>
           ELSE /\ st.seq.dietary <= MaxRows
                /\ st.seq.exercise <= MaxRows
                /\ dietary' = st.dietary
                /\ exercise' = st.exercise
                /\ seq' = st.seq
        /\ UNCHANGED <<weight, stdout>>
        /\ UNCHANGED aiVars
        /\ UNCHANGED accountVars

\* add_weight: w is the weight_kg field (given, parsable as Decimal, value in
\* hundredths of a kilogram), d the date field ("blank", "ok", "unparseable")
AddWeight(u, w, d) ==
    /\ IF w.given /\ w.parses /\ d.kind # "unparseable"
       THEN /\ seq.weight < MaxRows
            /\ weight' = weight \cup
                 {[id |-> seq.weight + 1, user |-> u,
                   date |-> IF d.kind = "blank" THEN DateOf(now) ELSE d.day,
                   weight_kg |-> w.value]}
            /\ seq' = [seq EXCEPT !.weight = @ + 1]
       ELSE UNCHANGED <<weight, seq>>
    /\ UNCHANGED <<dietary, exercise, stdout>>
    /\ UNCHANGED aiVars
    /\ UNCHANGED accountVars

\* admin (ExerciseEntryAdmin): an exercise entry saved with calories_burned
\* left blank, stored as null: the row has no calories_burned field
AdminAddExercise(u, d, m) ==
    /\ seq.exercise < MaxRows
    /\ exercise' = exercise \cup
         {[id |-> seq.exercise + 1, user |-> u, date |-> d, duration_minutes |-> m]}
    /\ seq' = [seq EXCEPT !.exercise = @ + 1]
    /\ UNCHANGED <<dietary, weight, stdout>>
    /\ UNCHANGED aiVars
    /\ UNCHANGED accountVars

\* faulty variant: the row with this id is deleted whoever owns it
DeleteDietaryEntry_any_owner(u, entry_id) ==
    /\ dietary' = {e \in dietary : e.id # entry_id}
    /\ UNCHANGED <<exercise, weight, seq, stdout>>
    /\ UNCHANGED aiVars
    /\ UNCHANGED accountVars

\* delete_dietary_entry / delete_exercise_entry / delete_weight_entry: the row
\* with this id owned by the requester, or 403
DeleteDietaryEntry(u, entry_id) ==
    /\ dietary' = {e \in dietary : ~(e.id = entry_id /\ e.user = u)}
    /\ UNCHANGED <<exercise, weight, seq, stdout>>
    /\ UNCHANGED aiVars
    /\ UNCHANGED accountVars

DeleteExerciseEntry(u, entry_id) ==
    /\ exercise' = {e \in exercise : ~(e.id = entry_id /\ e.user = u)}
    /\ UNCHANGED <<dietary, weight, seq, stdout>>
    /\ UNCHANGED aiVars
    /\ UNCHANGED accountVars

DeleteWeightEntry(u, entry_id) ==
    /\ weight' = {e \in weight : ~(e.id = entry_id /\ e.user = u)}
    /\ UNCHANGED <<dietary, exercise, seq, stdout>>
    /\ UNCHANGED aiVars
    /\ UNCHANGED accountVars

Lower(c) == IF c = "YES" THEN "yes" ELSE c

\* faulty variant: the purge also empties the usage table
ClearData_purges_usage(force, confirm) ==
    /\ force \/ Lower(confirm) = "yes"
    /\ dietary' = {}
    /\ exercise' = {}
    /\ weight' = {}
    /\ usage' = << >>
    /\ stdout' = [kind |-> "deleted", dietary |-> Cardinality(dietary),
                  exercise |-> Cardinality(exercise), weight |-> Cardinality(weight)]
    /\ UNCHANGED <<seq, now, special, ai_enabled, limits, api_key, req>>
    /\ UNCHANGED accountVars

\* manage.py clear_data [--force]
ClearData(force, confirm) ==
    /\ IF ~force /\ Lower(confirm) # "yes"
       THEN /\ stdout' = [kind |-> "aborted", dietary |-> 0, exercise |-> 0, weight |-> 0]
            /\ UNCHANGED <<dietary, exercise, weight>>
       ELSE /\ stdout' = [kind |-> "deleted", dietary |-> Cardinality(dietary),
                          exercise |-> Cardinality(exercise),
                          weight |-> Cardinality(weight)]
            /\ dietary' = {}
            /\ exercise' = {}
            /\ weight' = {}
    /\ UNCHANGED seq
    /\ UNCHANGED aiVars
    /\ UNCHANGED accountVars

\* the read-only views: dashboard, daily_recap, ai_quota_status (its figures
\* are get_user_quota_info) store nothing
Dashboard(u) == UNCHANGED vars

DailyRecap(u, d) == UNCHANGED vars

AIQuotaStatus(u) == UNCHANGED vars

\* the answer of ai_quota_status: 403 behind the ai_enabled gate, otherwise
\* the figures of get_user_quota_info
AIQuotaStatusResponse(u) ==
    IF ~ai_enabled[u]
    THEN [status |-> 403, success |-> FALSE, error |-> ErrNotEnabled, quota |-> << >>]
    ELSE [status |-> 200, success |-> TRUE, error |-> NoMsg,
          quota |-> <<get_user_quota_info(u)>>]

\* ---- dashboard (views.py) ----
\* A date is a day number (DateOf of an instant); an imported entry may carry
\* any day number, also one before day 0.
ChartSpan == 29
HeatmapMonthsBack == 11

\* faulty variant: the partner is shown only when the link is mutual
get_partner_reciprocal(u) ==
    IF partner[u] # NoUser /\ partner[partner[u]] = u THEN partner[u] ELSE NoUser

\* profile.partner, None when no partner is linked
get_partner(u) == partner[u]

ViewingPartner(u, view_partner) == view_partner /\ get_partner(u) # NoUser

TargetUser(u, view_partner) ==
    IF ViewingPartner(u, view_partner) THEN get_partner(u) ELSE u

DietaryOf(t) == {e \in dietary : e.user = t}
ExerciseOf(t) == {e \in exercise : e.user = t}
WeightOf(t) == {e \in weight : e.user = t}

DatesOf(rows) == {e.date : e \in rows}

MaxOf(S) == CHOOSE x \in S : \A y \in S : y <= x
MinOf(S) == CHOOSE x \in S : \A y \in S : x <= y

\* latest_dates: Max('date') of each table where it has rows, and today
LatestDates(t) ==
    DatesOf(DietaryOf(t)) \cup DatesOf(ExerciseOf(t)) \cup DatesOf(WeightOf(t))
        \cup {DateOf(now)}

ChartEnd(t) == MaxOf(LatestDates(t))
ChartStart(t) == ChartEnd(t) - ChartSpan

\* faulty variant: the rows of every user inside the date range
RowsBetween_all_users(rows, t, first, last) ==
    {e \in rows : e.date >= first /\ e.date <= last}

\* filter(user=target_user, date__gte=first, date__lte=last)
RowsBetween(rows, t, first, last) ==
    {e \in rows : e.user = t /\ e.date >= first /\ e.date <= last}

\* Sum(field) over a group of rows
RECURSIVE SumOf(_, _)
SumOf(rows, field) ==
    IF rows = {} THEN 0
    ELSE LET e == CHOOSE x \in rows : TRUE
         IN e[field] + SumOf(rows \ {e}, field)

\* e[field] or 0: a null column (the row has no such field) counts as 0
ValueOrZero(e, field) == IF field \in DOMAIN e THEN e[field] ELSE 0

\* sum(e[field] or 0 for e in rows)
RECURSIVE SumOrZero(_, _)
SumOrZero(rows, field) ==
    IF rows = {} THEN 0
    ELSE LET e == CHOOSE x \in rows : TRUE
         IN ValueOrZero(e, field) + SumOrZero(rows \ {e}, field)

\* order_by('date') of the grouped dates
RECURSIVE SortedDates(_)
SortedDates(D) ==
    IF D = {} THEN << >>
    ELSE LET m == MinOf(D) IN <<m>> \o SortedDates(D \ {m})

\* .values('date').annotate(total=Sum(field)).order_by('date'): one row per
\* date that has entries
DailyTotals(rows, field) ==
    LET ds == SortedDates(DatesOf(rows))
    IN [i \in 1..Len(ds) |->
            [date |-> ds[i], total |-> SumOf({e \in rows : e.date = ds[i]}, field)]]

RECURSIVE SumSeq(_)
SumSeq(q) == IF q = << >> THEN 0 ELSE Head(q) + SumSeq(Tail(q))

HeatmapStart == ((DateOf(now) \div DaysPerMonth) - HeatmapMonthsBack) * DaysPerMonth
HeatmapEnd == ((DateOf(now) \div DaysPerMonth) + 1) * DaysPerMonth - 1

\* .values('date').annotate(c=Count('id'))
CountByDate(rows) ==
    [d \in DatesOf(rows) |-> Cardinality({e \in rows : e.date = d})]

\* activity_counts[date] += c
AddCounts(acc, c) ==
    [d \in (DOMAIN acc) \cup (DOMAIN c) |->
        (IF d \in DOMAIN acc THEN acc[d] ELSE 0) + (IF d \in DOMAIN c THEN c[d] ELSE 0)]

\* faulty variant: the weight entries are left out of the activity count
ActivityCounts_no_weight(t) ==
    AddCounts(CountByDate(RowsBetween(dietary, t, HeatmapStart, HeatmapEnd)),
              CountByDate(RowsBetween(exercise, t, HeatmapStart, HeatmapEnd)))

ActivityCounts(t) ==
    AddCounts(
        AddCounts(CountByDate(RowsBetween(dietary, t, HeatmapStart, HeatmapEnd)),
                  CountByDate(RowsBetween(exercise, t, HeatmapStart, HeatmapEnd))),
        CountByDate(RowsBetween(weight, t, HeatmapStart, HeatmapEnd)))

\* latest_weight: WeightEntry ... order_by('-date').first(); the order among
\* entries of one date is left to the database, so every entry of the
\* greatest date is a possible first row
NoWeight == [present |-> FALSE, value |-> 0]

LatestWeightValues(t) ==
    IF WeightOf(t) = {} THEN {NoWeight}
    ELSE {[present |-> TRUE, value |-> e.weight_kg] :
             e \in {x \in WeightOf(t) : x.date = MaxOf(DatesOf(WeightOf(t)))}}

\* the context of dashboard(request, view_partner) for requester u, without
\* latest_weight
DashboardContext(u, view_partner) ==
    LET t == TargetUser(u, view_partner)
        cal_qs == DailyTotals(RowsBetween(dietary, t, ChartStart(t), ChartEnd(t)), "calories")
        ex_qs == DailyTotals(RowsBetween(exercise, t, ChartStart(t), ChartEnd(t)),
                             "duration_minutes")
        cal_values == [i \in 1..Len(cal_qs) |-> cal_qs[i].total]
        ex_values == [i \in 1..Len(ex_qs) |-> ex_qs[i].total]
        counts == ActivityCounts(t)
    IN  [viewing_partner |-> ViewingPartner(u, view_partner),
         partner |-> get_partner(u),
         target_user |-> t,
         today |-> DateOf(now),
         chart_start |-> ChartStart(t),
         chart_end |-> ChartEnd(t),
         cal_dates |-> [i \in 1..Len(cal_qs) |-> cal_qs[i].date],
         cal_values |-> cal_values,
         ex_dates |-> [i \in 1..Len(ex_qs) |-> ex_qs[i].date],
         ex_values |-> ex_values,
         heatmap_data |-> {<<d, counts[d]>> : d \in DOMAIN counts},
         heatmap_start |-> HeatmapStart,
         heatmap_end |-> HeatmapEnd,
         total_calories |-> SumSeq(cal_values),
         total_exercise_min |-> SumSeq(ex_values)]

\* partner_dashboard: dashboard(request, view_partner=True), read-only
PartnerDashboard(u) == UNCHANGED vars

\* ---- accounts (admin) ----
\* UserProfileInline: the partner field of a profile is set or cleared
SetPartner(u, p) ==
    /\ u \in accounts
    /\ p \in accounts \cup {NoUser}
    /\ partner[u] # p
    /\ partner' = [partner EXCEPT ![u] = p]
    /\ UNCHANGED accounts
    /\ UNCHANGED aiVars
    /\ UNCHANGED entryVars

\* user.delete(): the profile, the entries, the usage events and the group
\* membership of the user go with it (CASCADE), a partner link pointing at the
\* user becomes null (SET_NULL)
DeleteUser(u) ==
    /\ u \in accounts
    /\ accounts' = accounts \ {u}
    /\ partner' = [v \in Users |-> IF v = u \/ partner[v] = u THEN NoUser ELSE partner[v]]
    /\ dietary' = {e \in dietary : e.user # u}
    /\ exercise' = {e \in exercise : e.user # u}
    /\ weight' = {e \in weight : e.user # u}
    /\ usage' = SelectSeq(usage, LAMBDA r : r.user # u)
    /\ special' = special \ {u}
    /\ ai_enabled' = [ai_enabled EXCEPT ![u] = FALSE]
    /\ UNCHANGED <<now, limits, api_key, req, seq, stdout>>

\* ---- daily_recap and the delete views (views.py) ----
\* the primary key of a user; 0 and any number above belong to no account
UserId(u) == IF u = "u1" THEN 1 ELSE 2

\* the user_id of the URL: absent (daily-recap/<date>/) or an integer
NoUserId == [given |-> FALSE, id |-> 0]
GivenUserId(n) == [given |-> TRUE, id |-> n]

ErrUnauthorized == "Unauthorized"
ErrBadDate == "time data does not match format '%Y-%m-%d'"

RecapFailure(msg) ==
    [success |-> FALSE, error |-> msg, dietary |-> {}, exercise |-> {}, weight |-> {},
     total_calories_in |-> 0, total_calories_burned |-> 0, total_exercise_min |-> 0,
     net_calories |-> 0]

\* faulty variant: the exercise list is not restricted to the date
DailyRecapResponse_any_date(u, date_str, user_id) ==
    IF date_str.kind # "ok" THEN RecapFailure(ErrBadDate)
    ELSE IF (user_id.given /\ user_id.id # 0)
            /\ ~(get_partner(u) # NoUser /\ UserId(get_partner(u)) = user_id.id)
    THEN RecapFailure(ErrUnauthorized)
    ELSE LET t == IF user_id.given /\ user_id.id # 0 THEN get_partner(u) ELSE u
             d == {e \in dietary : e.user = t /\ e.date = date_str.day}
             x == {e \in exercise : e.user = t}
             w == {e \in weight : e.user = t /\ e.date = date_str.day}
         IN [success |-> TRUE, error |-> NoMsg, dietary |-> d, exercise |-> x, weight |-> w,
             total_calories_in |-> SumOrZero(d, "calories"),
             total_calories_burned |-> SumOrZero(x, "calories_burned"),
             total_exercise_min |-> SumOrZero(x, "duration_minutes"),
             net_calories |-> SumOrZero(d, "calories") - SumOrZero(x, "calories_burned")]

\* daily_recap(request, date_str, user_id) for requester u; date_str has a
\* kind ("ok", "unparseable") and a day.  The three lists are given as the sets
\* of the rows they show.  "if user_id:" is false for an absent user_id and
\* for 0.  The totals apply "or 0" to every value they add.
DailyRecapResponse(u, date_str, user_id) ==
    IF date_str.kind # "ok" THEN RecapFailure(ErrBadDate)
    ELSE IF (user_id.given /\ user_id.id # 0)
            /\ ~(get_partner(u) # NoUser /\ UserId(get_partner(u)) = user_id.id)
    THEN RecapFailure(ErrUnauthorized)
    ELSE LET t == IF user_id.given /\ user_id.id # 0 THEN get_partner(u) ELSE u
             d == {e \in dietary : e.user = t /\ e.date = date_str.day}
             x == {e \in exercise : e.user = t /\ e.date = date_str.day}
             w == {e \in weight : e.user = t /\ e.date = date_str.day}
         IN [success |-> TRUE, error |-> NoMsg, dietary |-> d, exercise |-> x, weight |-> w,
             total_calories_in |-> SumOrZero(d, "calories"),
             total_calories_burned |-> SumOrZero(x, "calories_burned"),
             total_exercise_min |-> SumOrZero(x, "duration_minutes"),
             net_calories |-> SumOrZero(d, "calories") - SumOrZero(x, "calories_burned")]

\* the status of delete_*_entry: a redirect after the delete, 403 when the
\* requester has no row with this id
DeleteResponse(rows, u, entry_id) ==
    IF \E e \in rows : e.id = entry_id /\ e.user = u THEN 302 ELSE 403

\* the users the admin moves into and out of the 'special' group
SpecialCandidates == {"u1"}

\* quota checks and recordings of both users on every worker, the clock and
\* the admin; the AI call answers with a parsed result
Next ==
    \/ Tick
    \/ \E u \in SpecialCandidates : AddSpecial(u)
    \/ \E u \in SpecialCandidates : RemoveSpecial(u)
    \/ \E u \in Users : SetAIEnabled(u, TRUE)
    \/ \E s \in Slots, u \in Users : ParseFoodCheck(s, u, "text")
    \/ \E s \in Slots : ParseFoodFinish(s, "ok")

Spec == Init /\ [][Next]_vars

\* the same operations with nobody ever put into the 'special' group
NextRace ==
    \/ Tick
    \/ \E u \in Users : SetAIEnabled(u, TRUE)
    \/ \E s \in Slots, u \in Users : ParseFoodCheck(s, u, "text")
    \/ \E s \in Slots : ParseFoodFinish(s, "ok")

SpecRace == Init /\ [][NextRace]_vars

\* every kind of request and every way the try block of ai_parse_food can end,
\* with and without an API key in the environment
InitOutcomes ==
    /\ InitStore
    /\ api_key \in BOOLEAN

NextOutcomes ==
    \/ TickUntil(TicksPerHour)
    \/ \E u \in Users : SetAIEnabled(u, TRUE)
    \/ \E s \in Slots, u \in Users, input \in Inputs : ParseFoodCheck(s, u, input)
    \/ \E s \in Slots, outcome \in Outcomes : ParseFoodFinish(s, outcome)

SpecOutcomes == InitOutcomes /\ [][NextOutcomes]_vars

\* the views and the management command that read and write the tracked
\* entries, next to the quota check and the recording
EntryDates == 0..MaxDate

LedgerDocs ==
    {Doc("list", <<DayOn(d, <<DietItem(100)>>, <<ExItem(30, 200)>>)>>) : d \in EntryDates}
    \cup {Doc("invalid", << >>)}

LedgerWeights == {[given |-> TRUE, parses |-> TRUE, value |-> 5500],
                  [given |-> FALSE, parses |-> FALSE, value |-> 0]}

LedgerWeightDates == {[kind |-> "blank", day |-> 0]}

\* no table has been given more than n rows
RowsWithin(n) == seq.dietary <= n /\ seq.exercise <= n /\ seq.weight <= n

NextLedger ==
    \/ TickUntil(TicksPerHour)
    \/ \E u \in Users : SetAIEnabled(u, TRUE)
    \/ \E u \in Users : ParseFoodCheck(1, u, "text")
    \/ \E outcome \in {"ok", "error"} : ParseFoodFinish(1, outcome)
    \/ \E u \in Users, data \in LedgerDocs : ImportJson(u, data) /\ RowsWithin(LedgerRows)'
    \/ \E u \in Users, data \in LedgerDocs : AISaveFood(u, data) /\ RowsWithin(LedgerRows)'
    \/ \E u \in Users, w \in LedgerWeights, d \in LedgerWeightDates :
            AddWeight(u, w, d) /\ RowsWithin(LedgerRows)'
    \/ \E u \in Users, entry_id \in 1..LedgerRows : DeleteDietaryEntry(u, entry_id)
    \/ \E u \in Users, entry_id \in 1..LedgerRows : DeleteExerciseEntry(u, entry_id)
    \/ \E u \in Users, entry_id \in 1..LedgerRows : DeleteWeightEntry(u, entry_id)
    \/ \E force \in BOOLEAN, confirm \in {"yes", "no"} : ClearData(force, confirm)
    \/ \E u \in Users : Dashboard(u)
    \/ \E u \in Users, d \in EntryDates : DailyRecap(u, d)
    \/ \E u \in Users : AIQuotaStatus(u)

SpecLedger == Init /\ [][NextLedger]_vars

\* the dashboards over imported and added entries: dates long before today,
\* today and in the month after it, two users, one of them linked as partner
FarPast == 0 - ChartSpan - 1

ChartDates == {FarPast, 0, DaysPerMonth}

ChartDocs ==
    {Doc("list", <<DayOn(d, <<DietItem(300), DietItem(500)>>, <<ExItem(30, 200)>>)>>) :
        d \in ChartDates}
    \cup {Doc("list", <<DayOn(d, <<DietItem(300)>>, <<ExItem(45, 100)>>)>>) : d \in ChartDates}
    \cup {Doc("list", <<DayOn(0, <<DietItem(300), DietItem(500)>>, <<ExItem(45, 100)>>),
                        DayOn(FarPast, << >>, <<ExItem(30, 200)>>)>>)}

ChartWeights == {[given |-> TRUE, parses |-> TRUE, value |-> 5500],
                 [given |-> TRUE, parses |-> TRUE, value |-> 5600]}

ChartWeightDates == {[kind |-> "blank", day |-> 0], [kind |-> "ok", day |-> FarPast]}

\* the entries and the accounts do not depend on the ceilings: one setting
InitEntries ==
    /\ Init
    /\ limits = [hourly |-> MaxLimit, daily |-> MaxLimit, monthly |-> MaxLimit]

NextCharts ==
    \/ TickUntil(TicksPerDay)
    \/ \E u \in Users, data \in ChartDocs : ImportJson(u, data)
    \/ \E u \in Users, w \in ChartWeights, d \in ChartWeightDates : AddWeight(u, w, d)
    \/ \E u \in Users : \E p \in Users \ {u} : SetPartner(u, p)
    \/ \E u \in Users : Dashboard(u)
    \/ \E u \in Users : PartnerDashboard(u)

SpecCharts == InitEntries /\ [][NextCharts]_vars

\* couples mode: the admin links, unlinks and deletes accounts while the users
\* add, delete and look at entries
PartnerDocs == {Doc("list", <<DayOn(0, <<DietItem(300)>>, <<ExItem(30, 200)>>)>>)}

PartnerWeights == {[given |-> TRUE, parses |-> TRUE, value |-> 5500]}

PartnerWeightDates == {[kind |-> "ok", day |-> 0]}

NextPartner ==
    \/ \E u \in accounts, p \in accounts \cup {NoUser} : SetPartner(u, p)
    \/ \E u \in accounts : DeleteUser(u)
    \/ \E u \in accounts : SetAIEnabled(u, TRUE)
    \/ \E u \in accounts, data \in PartnerDocs : ImportJson(u, data)
    \/ \E u \in accounts, data \in PartnerDocs : AISaveFood(u, data)
    \/ \E u \in accounts, w \in PartnerWeights, d \in PartnerWeightDates : AddWeight(u, w, d)
    \/ \E u \in accounts, entry_id \in 1..MaxRows : DeleteDietaryEntry(u, entry_id)
    \/ \E u \in accounts, entry_id \in 1..MaxRows : DeleteExerciseEntry(u, entry_id)
    \/ \E u \in accounts, entry_id \in 1..MaxRows : DeleteWeightEntry(u, entry_id)
    \/ \E u \in accounts : Dashboard(u)
    \/ \E u \in accounts : PartnerDashboard(u)
    \/ \E u \in accounts, d \in EntryDates : DailyRecap(u, d)

SpecPartner == InitEntries /\ [][NextPartner]_vars

\* import_json, ai_save_food and add_weight over the documents and form
\* fields a client can post: day records that are no objects, lack a date,
\* have a date that does not parse or is no string; items that are no
\* objects, hold negative numbers or a value the column rejects
BadDietItem == [dict |-> TRUE, storable |-> FALSE, calories |-> 0]

MixedDoc ==
    Doc("list", <<NotADay,
                  DayWithDate("missing", <<DietItem(100)>>, << >>),
                  DayWithDate("unparseable", <<DietItem(100)>>, <<ExItem(10, 50)>>),
                  DayOn(0, <<DietItem(300), NotAnItem>>, <<NotAnItem, ExItem(30, 200)>>),
                  DayOn(MaxDate, <<DietItem(500)>>, << >>)>>)

FailingDoc ==
    Doc("list", <<DayOn(0, <<DietItem(300), BadDietItem, DietItem(500)>>,
                        <<ExItem(30, 200)>>),
                  DayOn(MaxDate, << >>, <<ExItem(45, 100)>>)>>)

ImportDocs ==
    {MixedDoc, FailingDoc,
     Doc("list", << >>),
     Doc("list", <<DayFood(0, << >>, <<DietItem(250)>>, <<ExItem(30, 200)>>)>>),
     Doc("list", <<DayFood(MaxDate, <<DietItem(300)>>, <<DietItem(250)>>, <<ExItem(45, 100)>>)>>),
     Doc("list", <<DayOn(0, <<DietItem(0 - 500)>>, <<ExItem(0 - 30, 0 - 200)>>)>>),
     Doc("list", <<DayOn(0, <<DietItem(300)>>, << >>),
                   DayWithDate("nonstring", <<DietItem(100)>>, << >>),
                   DayOn(MaxDate, <<DietItem(500)>>, << >>)>>),
     Doc("dict", <<DayOn(0, <<DietItem(300)>>, <<ExItem(30, 200)>>)>>),
     Doc("scalar", << >>), Doc("invalid", << >>), Doc("empty", << >>)}

ImportWeights == {[given |-> TRUE, parses |-> TRUE, value |-> 5500],
                  [given |-> TRUE, parses |-> TRUE, value |-> 0],
                  [given |-> TRUE, parses |-> FALSE, value |-> 0],
                  [given |-> FALSE, parses |-> FALSE, value |-> 0]}

ImportWeightDates == {[kind |-> "blank", day |-> 0], [kind |-> "unparseable", day |-> 0]}

NextImport ==
    \/ \E u \in Users : SetAIEnabled(u, TRUE)
    \/ \E u \in Users, data \in ImportDocs : ImportJson(u, data)
    \/ \E u \in Users, data \in ImportDocs : AISaveFood(u, data)
    \/ \E u \in Users, w \in ImportWeights, d \in ImportWeightDates : AddWeight(u, w, d)

SpecImport == InitEntries /\ [][NextImport]_vars

\* daily_recap over entries of two users on two days, some exercise entries
\* with a null calories_burned, with and without a partner link
RecapDocs ==
    {Doc("list", <<DayOn(d, <<DietItem(300)>>, <<ExItem(30, 200)>>)>>) : d \in EntryDates}
    \cup {Doc("list", <<DayOn(d, <<DietItem(500)>>, << >>)>>) : d \in EntryDates}

RecapWeights == {[given |-> TRUE, parses |-> TRUE, value |-> 5500]}

RecapWeightDates == {[kind |-> "ok", day |-> d] : d \in EntryDates}

RecapMinutes == {45}

NextRecap ==
    \/ \E u \in Users, data \in RecapDocs : ImportJson(u, data)
    \/ \E u \in Users, w \in RecapWeights, d \in RecapWeightDates : AddWeight(u, w, d)
    \/ \E u \in Users, d \in EntryDates, m \in RecapMinutes : AdminAddExercise(u, d, m)
    \/ \E u \in Users : \E p \in (Users \ {u}) \cup {NoUser} : SetPartner(u, p)
    \/ \E u \in Users, d \in EntryDates : DailyRecap(u, d)

SpecRecap == InitEntries /\ [][NextRecap]_vars

\* clear_data run by the operator, with every kind of answer to its prompt,
\* on a site with entries, partner links, AI usage events and a 'special'
\* group
ClearAnswers == {"yes", "YES", "no", ""}

NextClear ==
    \/ \E u \in Users : SetAIEnabled(u, TRUE)
    \/ \E u \in SpecialCandidates : AddSpecial(u)
    \/ \E u \in Users : \E p \in Users \ {u} : SetPartner(u, p)
    \/ \E u \in Users : ParseFoodCheck(1, u, "text")
    \/ ParseFoodFinish(1, "ok")
    \/ \E u \in Users, data \in PartnerDocs : ImportJson(u, data)
    \/ \E u \in Users, w \in PartnerWeights, d \in PartnerWeightDates : AddWeight(u, w, d)
    \/ \E force \in BOOLEAN, confirm \in ClearAnswers : ClearData(force, confirm)

SpecClear == InitEntries /\ [][NextClear]_vars

\* the three AI endpoints while the admin switches the profile flag on and
\* off and moves users into and out of the 'special' group
NextGate ==
    \/ TickUntil(TicksPerHour)
    \/ \E u \in Users, b \in BOOLEAN : SetAIEnabled(u, b)
    \/ \E u \in Users : AddSpecial(u)
    \/ \E u \in Users : RemoveSpecial(u)
    \/ \E u \in Users, input \in {"text", "image"} : ParseFoodCheck(1, u, input)
    \/ ParseFoodFinish(1, "ok")
    \/ \E u \in Users, data \in PartnerDocs : AISaveFood(u, data)
    \/ \E u \in Users : AIQuotaStatus(u)

SpecGate == InitEntries /\ [][NextGate]_vars

\* the requests of user u between their quota check and their recording
InFlightOf(u) == {s \in InFlight : req[s].user = u}

\* each user's ai_parse_food requests run one at a time (a request starts
\* only when the user's previous one has written its usage record); requests
\* of different users overlap; nobody is in the 'special' group
NextSequential ==
    \/ Tick
    \/ \E u \in Users : SetAIEnabled(u, TRUE)
    \/ \E s \in Slots, u \in Users : InFlightOf(u) = {} /\ ParseFoodCheck(s, u, "text")
    \/ \E s \in Slots : ParseFoodFinish(s, "ok")

SpecSequential == Init /\ [][NextSequential]_vars

\* requests arrive and are recorded during the first month only; the clock
\* keeps advancing until the month has rolled over and one more hour has
\* gone by
RecoveryHorizon == TicksPerMonth + TicksPerHour

NextRecovery ==
    \/ TickUntil(RecoveryHorizon)
    \/ \E u \in Users : SetAIEnabled(u, TRUE)
    \/ \E s \in Slots, u \in Users : now < TicksPerMonth /\ ParseFoodCheck(s, u, "text")
    \/ \E s \in Slots : now < TicksPerMonth /\ ParseFoodFinish(s, "ok")

SpecRecovery ==
    Init /\ [][NextRecovery]_vars /\ WF_vars(TickUntil(RecoveryHorizon))

\* ---- the quota decision ----
HourlyAtCeiling(u) == get_usage_count(u, 1) >= limits.hourly
DailyAtCeiling(u) == get_daily_count(u) >= limits.daily
MonthlyAtCeiling(u) == get_monthly_count(u) >= limits.monthly

\* C1: a user outside the 'special' group is rejected exactly when the hourly,
\* the daily or the monthly count has reached its ceiling; when a single window
\* is at its ceiling the message names that window; with every window below
\* its ceiling the check allows.
C1_RejectedIffAtCeiling ==
    \A u \in Users \ special :
        LET r == check_rate_limit(u)
            H == HourlyAtCeiling(u)
            D == DailyAtCeiling(u)
            M == MonthlyAtCeiling(u)
        IN  /\ r.allowed = ~(H \/ D \/ M)
            /\ r.allowed => r.error_msg = NoMsg
            /\ (H /\ ~D /\ ~M) => r.error_msg = MsgHourly
            /\ (D /\ ~H /\ ~M) => r.error_msg = MsgDaily
            /\ (M /\ ~H /\ ~D) => r.error_msg = MsgMonthly

\* a user with exactly limit[daily] recorded events today, the other two
\* windows below their ceilings, is rejected on the daily ceiling
C1_Witness ==
    \E u \in Users \ special :
        /\ limits.daily > 0
        /\ get_daily_count(u) = limits.daily
        /\ ~HourlyAtCeiling(u)
        /\ ~MonthlyAtCeiling(u)
        /\ check_rate_limit(u).allowed = FALSE
        /\ check_rate_limit(u).error_msg = MsgDaily

\* C2: the windows are compared hourly, daily, monthly and the first one at
\* its ceiling gives the rejection reason.
C2_FirstViolatedWindowWins ==
    \A u \in Users \ special :
        LET r == check_rate_limit(u)
        IN  IF HourlyAtCeiling(u) THEN ~r.allowed /\ r.error_msg = MsgHourly
            ELSE IF DailyAtCeiling(u) THEN ~r.allowed /\ r.error_msg = MsgDaily
            ELSE IF MonthlyAtCeiling(u) THEN ~r.allowed /\ r.error_msg = MsgMonthly
            ELSE r.allowed

\* all three windows at their ceilings at once (after recorded events): hourly wins
C2_Witness ==
    \E u \in Users \ special :
        /\ get_usage_count(u, 1) > 0
        /\ HourlyAtCeiling(u) /\ DailyAtCeiling(u) /\ MonthlyAtCeiling(u)
        /\ check_rate_limit(u).error_msg = MsgHourly

\* C3: every result for a user outside the group carries the three remaining
\* values, each max(0, limit - count); the violated window reports 0, the
\* other two their own values; get_user_quota_info reports the same figures.
C3_RemainingTriple ==
    \A u \in Users \ special :
        LET r == check_rate_limit(u)
            q == get_user_quota_info(u)
            h == limits.hourly - get_usage_count(u, 1)
            d == limits.daily - get_daily_count(u)
            m == limits.monthly - get_monthly_count(u)
        IN  /\ r.remaining.hourly_remaining = (IF h < 0 THEN 0 ELSE h)
            /\ r.remaining.daily_remaining = (IF d < 0 THEN 0 ELSE d)
            /\ r.remaining.monthly_remaining = (IF m < 0 THEN 0 ELSE m)
            /\ r.remaining.unlimited = FALSE
            /\ r.error_msg = MsgHourly => r.remaining.hourly_remaining = 0
            /\ r.error_msg = MsgDaily => r.remaining.daily_remaining = 0
            /\ r.error_msg = MsgMonthly => r.remaining.monthly_remaining = 0
            /\ q.remaining.hourly = (IF h < 0 THEN 0 ELSE h)
            /\ q.remaining.daily = (IF d < 0 THEN 0 ELSE d)
            /\ q.remaining.monthly = (IF m < 0 THEN 0 ELSE m)
            /\ q.unlimited = FALSE

\* a rejection on the hourly ceiling, overshot by a race so that the clamp at 0
\* matters, that still reports a positive daily remaining
C3_Witness ==
    \E u \in Users \ special :
        /\ get_usage_count(u, 1) > limits.hourly
        /\ limits.hourly > 0
        /\ check_rate_limit(u).error_msg = MsgHourly
        /\ check_rate_limit(u).remaining.hourly_remaining = 0
        /\ check_rate_limit(u).remaining.daily_remaining > 0

\* C4: a member of the 'special' group is always allowed, with the unlimited
\* sentinel in all three windows, whatever the user's counts are.
C4_SpecialAlwaysAllowed ==
    \A u \in special :
        LET r == check_rate_limit(u)
        IN  /\ r.allowed
            /\ r.error_msg = NoMsg
            /\ r.remaining.hourly_remaining = Unlimited
            /\ r.remaining.daily_remaining = Unlimited
            /\ r.remaining.monthly_remaining = Unlimited
            /\ r.remaining.unlimited

\* a member whose three counts are all above their positive ceilings
C4_Witness ==
    \E u \in special :
        /\ limits.hourly > 0
        /\ get_usage_count(u, 1) > limits.hourly
        /\ get_daily_count(u) > limits.daily
        /\ get_monthly_count(u) > limits.monthly
        /\ check_rate_limit(u).allowed

Finishes(s) == req[s].pc = "checked" /\ req'[s].pc = "idle"

C6_OneEventPerRequest ==
    [][/\ \A s \in Slots :
            (Finishes(s) /\ req[s].input # "none")
            => /\ Len(usage') = Len(usage) + 1
               /\ SubSeq(usage', 1, Len(usage)) = usage
               /\ usage'[Len(usage')].user = req[s].user
               /\ usage'[Len(usage')].timestamp = now
               /\ usage'[Len(usage')].request_type = RequestType(req[s].input)
       /\ usage' # usage => \E s \in Slots : Finishes(s)
       /\ Len(usage') <= Len(usage) + 1]_vars

\* the ledger holds one event of a successful call, one of a call that
\* answered with an error and one of an oversized image that never reached
\* the AI
C6_Witness ==
    /\ \E i \in 1..Len(usage) : usage[i].success
    /\ \E i \in 1..Len(usage) : usage[i].error_message = ErrAI
    /\ \E i \in 1..Len(usage) : usage[i].error_message = ErrTooLarge

\* C7: the usage ledger is append-only: no step removes or changes an
\* existing event, the ledger only grows at its end.
C7_LedgerAppendOnly ==
    [][/\ Len(usage') >= Len(usage)
       /\ SubSeq(usage', 1, Len(usage)) = usage]_vars

\* clear_data has deleted tracked entries and the recorded usage events are
\* still there
C7_Witness ==
    /\ Len(usage) > 0
    /\ stdout.kind = "deleted"
    /\ stdout.dietary + stdout.exercise + stdout.weight > 0
    /\ dietary = {} /\ exercise = {} /\ weight = {}

\* C8: check and record are not atomic.  For a user who is never in the
\* 'special' group, with NumSlots requests able to run at once, the events in
\* a window plus the requests between their check and their record never
\* exceed the ceiling by more than NumSlots - 1.
C8_BoundedOvershoot ==
    \A u \in Users :
        LET k == Cardinality(InFlightOf(u))
        IN  /\ get_usage_count(u, 1) + k <= limits.hourly + NumSlots - 1
            /\ get_daily_count(u) + k <= limits.daily + NumSlots - 1
            /\ get_monthly_count(u) + k <= limits.monthly + NumSlots - 1

\* the race happened: a window holds NumSlots - 1 events more than its ceiling
C8_Witness ==
    \E u \in Users :
        /\ limits.hourly > 0
        /\ NumSlots > 1
        /\ get_usage_count(u, 1) = limits.hourly + NumSlots - 1

\* C9: the result for user a depends on a's own events and a's own group
\* membership only: a step that changes neither (and not the clock), such as
\* another user's recording or group change, leaves a's result as it was.
UserEvents(u) == {<<i, usage[i]>> : i \in UserRows(u)}

C9_UsersIndependent ==
    [][\A a \in Users :
        (/\ now' = now
         /\ UserEvents(a)' = UserEvents(a)
         /\ (a \in special)' = (a \in special))
        => check_rate_limit(a)' = check_rate_limit(a)]_vars

\* user b is at the hourly ceiling through b's own events while a, with no
\* event at all, still has the full hourly remaining
C9_Witness ==
    \E a, b \in Users \ special :
        /\ a # b
        /\ limits.hourly > 0
        /\ b \notin SpecialCandidates
        /\ get_usage_count(b, 1) >= limits.hourly
        /\ ~check_rate_limit(b).allowed
        /\ UserRows(a) = {}
        /\ check_rate_limit(a).allowed
        /\ check_rate_limit(a).remaining.hourly_remaining = limits.hourly

\* C10: the hourly count is the user's events at most one hour old, the daily
\* count the events since the last midnight, the monthly count the events
\* since the first instant of the current month of the current year.
DayStart(t) == t - (t % TicksPerDay)
MonthStart(t) == t - (t % TicksPerMonth)

C10_WindowCounts ==
    \A u \in Users :
        /\ get_usage_count(u, 1) =
             Cardinality({i \in UserRows(u) : now - usage[i].timestamp <= TicksPerHour})
        /\ get_daily_count(u) =
             Cardinality({i \in UserRows(u) :
                 /\ usage[i].timestamp >= DayStart(now)
                 /\ usage[i].timestamp < DayStart(now) + TicksPerDay})
        /\ get_monthly_count(u) =
             Cardinality({i \in UserRows(u) :
                 /\ usage[i].timestamp >= MonthStart(now)
                 /\ usage[i].timestamp < MonthStart(now) + TicksPerMonth})

\* an event exactly one hour old, recorded before midnight, counts toward the
\* hourly window and no longer toward the day; an event of the same month of
\* the year before does not count toward the month
C10_Witness ==
    \E u \in Users :
        /\ \E i \in UserRows(u) :
              /\ usage[i].timestamp = now - TicksPerHour
              /\ DateOf(usage[i].timestamp) # DateOf(now)
        /\ \E i \in UserRows(u) :
              /\ MonthOf(usage[i].timestamp) = MonthOf(now)
              /\ YearOf(usage[i].timestamp) # YearOf(now)
        /\ get_usage_count(u, 1) = 1
        /\ get_daily_count(u) = 0
        /\ get_monthly_count(u) = 0

RECURSIVE SumById(_, _, _, _, _, _)
SumById(rows, t, first, last, field, n) ==
    IF n = 0 THEN 0
    ELSE SumById(rows, t, first, last, field, n - 1)
         + (IF \E e \in rows : e.id = n /\ e.user = t /\ e.date >= first /\ e.date <= last
            THEN (CHOOSE e \in rows : e.id = n)[field]
            ELSE 0)

\* C12: the chart window ends on the latest date of the target user's dietary
\* and exercise records, on today only for a user without any record, and
\* starts ChartSpan days before its end.
C12_WindowAnchoredOnLatestRecord ==
    \A u \in Users, vp \in BOOLEAN :
        LET ctx == DashboardContext(u, vp)
            t == ctx.target_user
            recs == DatesOf(DietaryOf(t)) \cup DatesOf(ExerciseOf(t))
        IN  /\ recs # {} => ctx.chart_end = MaxOf(recs)
            /\ (recs = {} /\ WeightOf(t) = {}) => ctx.chart_end = DateOf(now)
            /\ ctx.chart_start = ctx.chart_end - ChartSpan

\* C13: the calories series has one pair per date of the chart window on which
\* the target user has a dietary entry, in ascending date order, each value
\* the sum of that user's calories of the date; total_calories is the sum over
\* the user's dietary entries in the window.  The exercise series is the same
\* over duration_minutes.
C13_SeriesPerDay ==
    \A u \in Users, vp \in BOOLEAN :
        LET ctx == DashboardContext(u, vp)
            t == ctx.target_user
            a == ctx.chart_start
            b == ctx.chart_end
            dd == {e.date : e \in {x \in dietary : x.user = t /\ x.date >= a /\ x.date <= b}}
            ed == {e.date : e \in {x \in exercise : x.user = t /\ x.date >= a /\ x.date <= b}}
        IN  /\ Len(ctx.cal_dates) = Cardinality(dd)
            /\ Len(ctx.cal_values) = Len(ctx.cal_dates)
            /\ \A i \in 1..Len(ctx.cal_dates) :
                  /\ ctx.cal_dates[i] \in dd
                  /\ i > 1 => ctx.cal_dates[i - 1] < ctx.cal_dates[i]
                  /\ ctx.cal_values[i] =
                        SumById(dietary, t, ctx.cal_dates[i], ctx.cal_dates[i],
                                "calories", seq.dietary)
            /\ ctx.total_calories = SumById(dietary, t, a, b, "calories", seq.dietary)
            /\ Len(ctx.ex_dates) = Cardinality(ed)
            /\ Len(ctx.ex_values) = Len(ctx.ex_dates)
            /\ \A i \in 1..Len(ctx.ex_dates) :
                  /\ ctx.ex_dates[i] \in ed
                  /\ i > 1 => ctx.ex_dates[i - 1] < ctx.ex_dates[i]
                  /\ ctx.ex_values[i] =
                        SumById(exercise, t, ctx.ex_dates[i], ctx.ex_dates[i],
                                "duration_minutes", seq.exercise)
            /\ ctx.total_exercise_min =
                  SumById(exercise, t, a, b, "duration_minutes", seq.exercise)

\* a user with two dietary entries of 300 and 500 on day 0 and exercise entries
\* on day 0 and long before the window: one calories pair of 800, one
\* exercise pair of 45 minutes, the old exercise entry left out
C13_Witness ==
    \E u \in Users :
        LET ctx == DashboardContext(u, FALSE)
        IN  /\ ctx.cal_dates = <<0>>
            /\ ctx.cal_values = <<800>>
            /\ ctx.total_calories = 800
            /\ ctx.ex_dates = <<0>>
            /\ ctx.ex_values = <<45>>
            /\ ctx.total_exercise_min = 45
            /\ \E e \in ExerciseOf(u) : e.date < ctx.chart_start
            /\ ctx.chart_start < 0

\* the month a day number lies in
MonthIndex(d) == d \div DaysPerMonth

\* the entries of any kind that user t has on date d
EntriesOn(t, d) ==
    Cardinality({e \in dietary : e.user = t /\ e.date = d})
    + Cardinality({e \in exercise : e.user = t /\ e.date = d})
    + Cardinality({e \in weight : e.user = t /\ e.date = d})

\* C14: the heatmap holds, for every date between the first day of the month
\* HeatmapMonthsBack months before today's and the last day of today's month
\* on which the target user has entries, exactly one pair, whose count is the
\* number of the user's dietary, exercise and weight entries of that date;
\* it holds nothing else, and nothing at all for a user without entries.
C14_HeatmapAdditiveSparse ==
    \A u \in Users, vp \in BOOLEAN :
        LET ctx == DashboardContext(u, vp)
            t == ctx.target_user
            H == ctx.heatmap_data
            thisMonth == MonthIndex(DateOf(now))
            InWindow(d) == /\ MonthIndex(d) >= thisMonth - HeatmapMonthsBack
                           /\ MonthIndex(d) <= thisMonth
            dates == DatesOf(DietaryOf(t)) \cup DatesOf(ExerciseOf(t))
                        \cup DatesOf(WeightOf(t))
        IN  /\ \A p \in H : /\ InWindow(p[1])
                              /\ p[2] > 0
                              /\ p[2] = EntriesOn(t, p[1])
            /\ \A p, q \in H : p[1] = q[1] => p = q
            /\ \A d \in dates : InWindow(d) => <<d, EntriesOn(t, d)>> \in H
            /\ dates = {} => H = {}

\* a user with a dietary, an exercise and a weight entry on day 0 (count 3),
\* a weight entry long before the window, while the other user has entries on
\* day 0 as well
C14_Witness ==
    \E u \in Users :
        LET ctx == DashboardContext(u, FALSE)
        IN  /\ ctx.heatmap_data = {<<0, 3>>}
            /\ \E e \in WeightOf(u) : e.date < ctx.heatmap_start
            /\ \E e \in WeightOf(u) : e.date = 0
            /\ \E v \in Users \ {u} : \E e \in DietaryOf(v) : e.date = 0

\* C15: latest_weight is the weight of the target user's weight entry with
\* the greatest date, null without a weight entry; after an add_weight that
\* stored an entry dated not earlier than any weight entry the user had, it is
\* the weight just added.
C15_LatestWeightIsLastAdded ==
    [][\A u \in Users, w \in ChartWeights, d \in ChartWeightDates :
        (/\ AddWeight(u, w, d)
         /\ weight' # weight
         /\ \A e \in WeightOf(u) :
               e.date <= (IF d.kind = "blank" THEN DateOf(now) ELSE d.day))
        => LatestWeightValues(u)' = {[present |-> TRUE, value |-> w.value]}]_vars

\* ---- couples mode ----
\* the ids a request can name: 0, the ids of the two users, an id never given
RecapIds == 0..(Cardinality(Users) + 1)

OkDate(d) == [kind |-> "ok", day |-> d]

\* C16: daily_recap with a user_id returns entries only when the id is that
\* of the requester's linked partner, and then the partner's; for every other
\* id the answer is success = false, 'Unauthorized', without entries, whether
\* or not the id belongs to an account.
C16_RecapOnlyForPartner ==
    \A u \in accounts, d \in EntryDates, n \in RecapIds :
        LET r == DailyRecapResponse(u, OkDate(d), GivenUserId(n))
        IN  IF partner[u] # NoUser /\ n = UserId(partner[u])
            THEN /\ r.success
                 /\ r.dietary = {e \in dietary : e.user = partner[u] /\ e.date = d}
                 /\ r.exercise = {e \in exercise : e.user = partner[u] /\ e.date = d}
                 /\ r.weight = {e \in weight : e.user = partner[u] /\ e.date = d}
            ELSE /\ r.success = FALSE
                 /\ r.error = ErrUnauthorized
                 /\ r.dietary = {} /\ r.exercise = {} /\ r.weight = {}

\* C17: partner_dashboard shows the partner's data exactly when the requester's
\* profile links a partner, whether or not the partner links back; without a
\* link (never set, removed, or nulled by the deletion of the partner) it
\* shows the requester's own data; the plain dashboard always shows the
\* requester's own data, so being the target of a link gives no view.
C17_PartnerViewFollowsOwnLink ==
    \A u \in accounts :
        LET pd == DashboardContext(u, TRUE)
            own == DashboardContext(u, FALSE)
        IN  /\ partner[u] \in accounts \cup {NoUser}
            /\ pd.viewing_partner = (partner[u] # NoUser)
            /\ pd.target_user = (IF partner[u] # NoUser THEN partner[u] ELSE u)
            /\ partner[u] # NoUser =>
                  pd.heatmap_data = DashboardContext(partner[u], FALSE).heatmap_data
            /\ partner[u] = NoUser => pd = own
            /\ own.viewing_partner = FALSE
            /\ own.target_user = u

\* a one-way link: u views v's entries on the partner dashboard, v (who links
\* nobody) gets v's own data there and has no view of u's entry
C17_Witness ==
    \E u, v \in accounts :
        /\ u # v
        /\ partner[u] = v
        /\ partner[v] = NoUser
        /\ DietaryOf(v) # {}
        /\ WeightOf(u) # {}
        /\ DashboardContext(u, TRUE).viewing_partner
        /\ DashboardContext(u, TRUE).target_user = v
        /\ DashboardContext(u, TRUE).total_calories > 0
        /\ DashboardContext(v, TRUE).viewing_partner = FALSE
        /\ DashboardContext(v, TRUE).target_user = v

\* the rows of a table that user u owns
OwnedBy(rows, u) == {e \in rows : e.user = u}

\* a request of u that only creates: every row there was stays as it is and
\* every new row is owned by u
CreatesOnlyOwn(u) ==
    /\ dietary \subseteq dietary' /\ OwnedBy(dietary' \ dietary, u) = dietary' \ dietary
    /\ exercise \subseteq exercise' /\ OwnedBy(exercise' \ exercise, u) = exercise' \ exercise
    /\ weight \subseteq weight' /\ OwnedBy(weight' \ weight, u) = weight' \ weight

\* a delete request of u for entry_id on one table: exactly the addressed row
\* goes when u owns it (answer 302), otherwise the answer is 403 and nothing
\* changes
DeletesOnlyOwn(rows, rowsAfter, u, entry_id) ==
    LET hit == {e \in rows : e.id = entry_id /\ e.user = u}
    IN  /\ Cardinality(hit) <= 1
        /\ rowsAfter = rows \ hit
        /\ (DeleteResponse(rows, u, entry_id) = 403) = (hit = {})
        /\ (DeleteResponse(rows, u, entry_id) = 302) = (hit # {})

\* C18: no request of user u creates, changes or deletes an entry of another
\* user, linked or not.  import_json, ai_save_food and add_weight only add
\* entries owned by the requester; the delete views remove exactly the
\* addressed entry when the requester owns it and otherwise answer 403 and
\* change nothing; the dashboards and daily_recap change nothing.
C18_OwnerIsolation ==
    [][\A u \in Users :
        /\ (\/ \E data \in PartnerDocs : ImportJson(u, data)
            \/ \E data \in PartnerDocs : AISaveFood(u, data)
            \/ \E w \in PartnerWeights, d \in PartnerWeightDates : AddWeight(u, w, d))
           => CreatesOnlyOwn(u)
        /\ \A entry_id \in 1..MaxRows :
             /\ DeleteDietaryEntry(u, entry_id)
                  => /\ DeletesOnlyOwn(dietary, dietary', u, entry_id)
                     /\ exercise' = exercise /\ weight' = weight
             /\ DeleteExerciseEntry(u, entry_id)
                  => /\ DeletesOnlyOwn(exercise, exercise', u, entry_id)
                     /\ dietary' = dietary /\ weight' = weight
             /\ DeleteWeightEntry(u, entry_id)
                  => /\ DeletesOnlyOwn(weight, weight', u, entry_id)
                     /\ dietary' = dietary /\ exercise' = exercise
        /\ (Dashboard(u) \/ PartnerDashboard(u) \/ \E d \in EntryDates : DailyRecap(u, d))
           => /\ dietary' = dietary /\ exercise' = exercise /\ weight' = weight]_vars

\* u, linked to partner v, has deleted u's own dietary entry; v's entry is
\* still there and a delete request of u for it is answered 403
C18_Witness ==
    \E u, v \in accounts :
        /\ u # v
        /\ partner[u] = v
        /\ seq.dietary = 2
        /\ Cardinality(dietary) = 1
        /\ \A e \in dietary : e.user = v /\ DeleteResponse(dietary, u, e.id) = 403
        /\ ExerciseOf(u) # {}

\* C19: after any sequence of import_json, ai_save_food and add_weight
\* requests every stored dietary entry has calories >= 0, every stored
\* exercise entry has duration_minutes >= 0 and calories_burned >= 0, and
\* every stored weight entry has weight_kg > 0.
C19_StoredValuesInRange ==
    /\ \A e \in dietary : e.calories >= 0
    /\ \A e \in exercise : e.duration_minutes >= 0 /\ e.calories_burned >= 0
    /\ \A e \in weight : e.weight_kg > 0

\* the day records of a posted list, by position: those that are objects with
\* a date that parses, and those import_json counts as skipped
ValidDays(data) ==
    {i \in 1..Len(data.days) : data.days[i].dict /\ data.days[i].date.kind = "ok"}

SkippedDays(data) ==
    {i \in 1..Len(data.days) :
        \/ ~data.days[i].dict
        \/ data.days[i].date.kind \in {"missing", "unparseable"}}

\* the 'dietary' list of a day record, or its 'food' list when it has no
\* 'dietary' entries
ClaimedFoodList(entry) == IF Len(entry.dietary) > 0 THEN entry.dietary ELSE entry.food

\* the object items of a list, by position
ObjectItems(items) == {j \in 1..Len(items) : items[j].dict}

\* (day record, item) positions of the object food items and of the object
\* exercise items of the valid day records dated d
FoodOn(data, d) ==
    UNION {{<<i, j>> : j \in ObjectItems(ClaimedFoodList(data.days[i]))} :
             i \in {v \in ValidDays(data) : data.days[v].date.day = d}}

ExerciseOn(data, d) ==
    UNION {{<<i, j>> : j \in ObjectItems(data.days[i].exercise)} :
             i \in {v \in ValidDays(data) : data.days[v].date.day = d}}

DocDates(data) == {data.days[i].date.day : i \in ValidDays(data)}

\* processing the list raises: a date that is neither empty nor a string, or
\* an object item of a valid day with a value the column rejects
ItemRaises(items) == \E j \in ObjectItems(items) : ~items[j].storable

Raises(data) ==
    \E i \in 1..Len(data.days) :
        LET entry == data.days[i]
        IN  /\ entry.dict
            /\ \/ entry.date.kind = "nonstring"
               \/ /\ entry.date.kind = "ok"
                  /\ ItemRaises(ClaimedFoodList(entry)) \/ ItemRaises(entry.exercise)

\* this step created, for requester u, one dietary entry per object food item
\* and one exercise entry per object exercise item of every valid day record,
\* dated that day, and nothing else
CreatedPerItem(u, data) ==
    LET newDiet == dietary' \ dietary
        newEx == exercise' \ exercise
    IN  /\ dietary \subseteq dietary' /\ exercise \subseteq exercise' /\ weight' = weight
        /\ \A e \in newDiet \cup newEx : e.user = u /\ e.date \in DocDates(data)
        /\ \A d \in DocDates(data) :
             /\ Cardinality({e \in newDiet : e.date = d}) = Cardinality(FoodOn(data, d))
             /\ Cardinality({e \in newEx : e.date = d}) = Cardinality(ExerciseOn(data, d))

\* the answer is success=true and its message counts what this step created
\* and skipped
CountsReported(u, data) ==
    LET r == ImportJsonResponse(u, data)
    IN  /\ r.success
        /\ r.dietary_count = Cardinality(dietary' \ dietary)
        /\ r.exercise_count = Cardinality(exercise' \ exercise)
        /\ r.skipped_days = Cardinality(SkippedDays(data))

\* this step created no more than one entry per object item of the valid day
\* records, all owned by u, and answered success=false
StoppedAtRaise(u, data) ==
    LET newDiet == dietary' \ dietary
        newEx == exercise' \ exercise
    IN  /\ dietary \subseteq dietary' /\ exercise \subseteq exercise' /\ weight' = weight
        /\ \A e \in newDiet \cup newEx : e.user = u /\ e.date \in DocDates(data)
        /\ \A d \in DocDates(data) :
             /\ Cardinality({e \in newDiet : e.date = d}) <= Cardinality(FoodOn(data, d))
             /\ Cardinality({e \in newEx : e.date = d}) <= Cardinality(ExerciseOn(data, d))
        /\ ~ImportJsonResponse(u, data).success

RECURSIVE SumPresentById(_, _, _, _, _)
SumPresentById(rows, t, d, field, n) ==
    IF n = 0 THEN 0
    ELSE SumPresentById(rows, t, d, field, n - 1)
         + (IF \E e \in rows : e.id = n /\ e.user = t /\ e.date = d /\ field \in DOMAIN e
            THEN (CHOOSE e \in rows : e.id = n)[field]
            ELSE 0)

\* the user_id values with which requester u gets a recap: none (u's own
\* data) and the id of u's linked partner
RecapTargets(u) ==
    {[user_id |-> NoUserId, target |-> u]}
    \cup (IF partner[u] # NoUser
          THEN {[user_id |-> GivenUserId(UserId(partner[u])), target |-> partner[u]]}
          ELSE {})

\* C21: daily_recap for a date returns exactly the target user's dietary,
\* exercise and weight entries of that day, none of another date or user,
\* with total_calories_in the sum of calories, total_calories_burned the sum
\* of calories_burned (null counting 0), total_exercise_min the sum of
\* duration_minutes and net_calories their difference; a day without entries
\* gives success = true, three empty lists and zero totals.
C21_RecapOfTheDay ==
    \A u \in Users, d \in EntryDates : \A c \in RecapTargets(u) :
        LET r == DailyRecapResponse(u, OkDate(d), c.user_id)
            t == c.target
            calories_in == SumPresentById(dietary, t, d, "calories", seq.dietary)
            burned == SumPresentById(exercise, t, d, "calories_burned", seq.exercise)
        IN  /\ r.success
            /\ r.dietary \subseteq dietary
            /\ r.exercise \subseteq exercise
            /\ r.weight \subseteq weight
            /\ \A e \in dietary : (e \in r.dietary) = (e.user = t /\ e.date = d)
            /\ \A e \in exercise : (e \in r.exercise) = (e.user = t /\ e.date = d)
            /\ \A e \in weight : (e \in r.weight) = (e.user = t /\ e.date = d)
            /\ r.total_calories_in = calories_in
            /\ r.total_calories_burned = burned
            /\ r.total_exercise_min
                 = SumPresentById(exercise, t, d, "duration_minutes", seq.exercise)
            /\ r.net_calories = calories_in - burned
            /\ (\A e \in dietary \cup exercise \cup weight : ~(e.user = t /\ e.date = d))
                 => /\ r.dietary = {} /\ r.exercise = {} /\ r.weight = {}
                    /\ r.total_calories_in = 0 /\ r.total_calories_burned = 0
                    /\ r.total_exercise_min = 0 /\ r.net_calories = 0

\* u has, on day d, two dietary entries, an exercise entry with calories
\* burned and one with null, and a weight entry; u's partner v has a weight
\* entry on another day, and u's recap of day d totals 800 in, 200 burned,
\* 75 minutes
C21_Witness ==
    \E u \in Users, d \in EntryDates :
        LET r == DailyRecapResponse(u, OkDate(d), NoUserId)
        IN  /\ Cardinality(r.dietary) = 2
            /\ Cardinality(r.exercise) = 2
            /\ \E e \in r.exercise : "calories_burned" \notin DOMAIN e
            /\ Cardinality(r.weight) = 1
            /\ r.total_calories_in = 800
            /\ r.total_calories_burned = 200
            /\ r.total_exercise_min = 75
            /\ r.net_calories = 600
            /\ partner[u] \in Users \ {u}
            /\ \E e \in weight : e.user = partner[u] /\ e.date # d
            /\ DailyRecapResponse(partner[u], OkDate(d), NoUserId).weight = {}

\* this step emptied the three entry tables and wrote the counts they had
ClearedAndCounted ==
    /\ dietary' = {} /\ exercise' = {} /\ weight' = {}
    /\ stdout' = [kind |-> "deleted", dietary |-> Cardinality(dietary),
                  exercise |-> Cardinality(exercise), weight |-> Cardinality(weight)]

\* this step wrote 'Aborted.' and left the three entry tables as they were
AbortedUntouched ==
    /\ dietary' = dietary /\ exercise' = exercise /\ weight' = weight
    /\ stdout'.kind = "aborted"

\* users, profiles, partner links, group and usage events are as before
AccountsAndUsageKept ==
    /\ accounts' = accounts /\ partner' = partner /\ ai_enabled' = ai_enabled
    /\ special' = special /\ usage' = usage

\* C22 as stated: clear_data with --force or confirmed with 'yes' deletes
\* every dietary, exercise and weight entry of every user and reports the
\* three counts from before, leaving users, profiles, partner links and AI
\* usage events unchanged; without --force and answered with anything other
\* than 'yes' it aborts and deletes nothing.
C22_ClearDataOnYesOnly ==
    [][\A force \in BOOLEAN, confirm \in ClearAnswers :
         ClearData(force, confirm)
            => /\ AccountsAndUsageKept
               /\ IF force \/ confirm = "yes"
                  THEN ClearedAndCounted
                  ELSE AbortedUntouched]_vars

\* C22 amended: the answer is compared without regard to letter case, so
\* 'YES' confirms like 'yes'; every other answer aborts.
C22_ClearDataOnYesAnyCase ==
    [][\A force \in BOOLEAN, confirm \in ClearAnswers :
         ClearData(force, confirm)
            => /\ AccountsAndUsageKept
               /\ IF force \/ confirm \in {"yes", "YES"}
                  THEN ClearedAndCounted
                  ELSE AbortedUntouched]_vars

\* clear_data has deleted entries of all three tables on a site with a
\* partner link, an AI-enabled profile and recorded usage events, all still
\* there
C22_Witness ==
    /\ stdout.kind = "deleted"
    /\ stdout.dietary > 0 /\ stdout.exercise > 0 /\ stdout.weight > 0
    /\ dietary = {} /\ exercise = {} /\ weight = {}
    /\ \E u \in Users : partner[u] # NoUser
    /\ \E u \in Users : ai_enabled[u] /\ UserRows(u) # {}

\* C23: for a user whose profile has ai_enabled = false (the default),
\* ai_parse_food, ai_save_food and ai_quota_status answer 403 and change
\* nothing: no quota figures in the answer, no request handed to the AI
\* service, no usage event, no entry; membership of the 'special' group does
\* not open the gate.
C23_GateBeforeAnythingElse ==
    [][\A u \in Users :
         ~ai_enabled[u] =>
            /\ ParseFoodGate(u).status = 403
            /\ ParseFoodGate(u).error = ErrNotEnabled
            /\ ~ParseFoodGate(u).rate_limit
            /\ AIQuotaStatusResponse(u).status = 403
            /\ AIQuotaStatusResponse(u).quota = << >>
            /\ \A data \in PartnerDocs : AISaveFoodResponse(u, data).status = 403
            /\ (\/ \E input \in {"text", "image"} : ParseFoodCheck(1, u, input)
                \/ \E data \in PartnerDocs : AISaveFood(u, data)
                \/ AIQuotaStatus(u))
               => UNCHANGED vars]_vars

\* a member of the 'special' group whose profile flag is off, while the other
\* user, flag on, has a recorded usage event and a saved entry
C23_Witness ==
    \E u, v \in Users :
        /\ u # v
        /\ u \in special /\ ~ai_enabled[u]
        /\ UserRows(u) = {} /\ DietaryOf(u) = {}
        /\ ai_enabled[v] /\ UserRows(v) # {} /\ DietaryOf(v) # {}
        /\ \A s \in Slots : req[s].pc = "idle"

\* the instants of the explored horizon
Instants == 0..MaxNow

\* the events of user u recorded in the span of one hour that starts at t, in
\* the calendar day of t, in the calendar month of t
EventsInHourFrom(u, t) ==
    {i \in UserRows(u) : usage[i].timestamp >= t /\ usage[i].timestamp <= t + TicksPerHour}

EventsInDayOf(u, t) == {i \in UserRows(u) : DateOf(usage[i].timestamp) = DateOf(t)}

EventsInMonthOf(u, t) ==
    {i \in UserRows(u) : /\ YearOf(usage[i].timestamp) = YearOf(t)
                         /\ MonthOf(usage[i].timestamp) = MonthOf(t)}

\* C24: with each user's requests executed one at a time, nobody exempt and
\* the ceilings fixed, a user's usage events never exceed the hourly ceiling
\* within any span of one hour, the daily ceiling within any calendar day,
\* the monthly ceiling within any calendar month.
C24_SequentialHardCap ==
    \A u \in Users, t \in Instants :
        /\ Cardinality(EventsInHourFrom(u, t)) <= limits.hourly
        /\ Cardinality(EventsInDayOf(u, t)) <= limits.daily
        /\ Cardinality(EventsInMonthOf(u, t)) <= limits.monthly

\* a user has filled the hour up to its ceiling, below the daily one, is
\* rejected, holds an older event outside that hour, and the other user has
\* a request in flight
C24_Witness ==
    \E u, v \in Users :
        /\ u # v
        /\ limits.hourly > 0
        /\ limits.hourly < limits.daily
        /\ get_usage_count(u, 1) = limits.hourly
        /\ ~check_rate_limit(u).allowed
        /\ \E i \in UserRows(u) : usage[i].timestamp < now - TicksPerHour
        /\ InFlightOf(v) # {}

\* C25: quota only recovers with time.  For a user outside the 'special'
\* group, while the ceilings stay as they are and no usage event is recorded,
\* the hourly, daily and monthly counts do not grow as the clock advances,
\* and a check that allows keeps allowing.
C25_QuotaOnlyRecovers ==
    [][\A u \in Users :
         (/\ now' >= now
          /\ usage' = usage
          /\ limits' = limits
          /\ u \notin special /\ u \notin special')
         => /\ get_usage_count(u, 1)' <= get_usage_count(u, 1)
            /\ get_daily_count(u)' <= get_daily_count(u)
            /\ get_monthly_count(u)' <= get_monthly_count(u)
            /\ check_rate_limit(u).allowed => check_rate_limit(u)'.allowed]_vars

\* a user who had filled the month up to its ceiling is allowed again after
\* the month has rolled over, the events still in the ledger
C25_Witness ==
    \E u \in Users \ special :
        /\ limits.monthly > 0
        /\ Cardinality(UserRows(u)) >= limits.monthly
        /\ get_monthly_count(u) = 0
        /\ get_usage_count(u, 1) = 0
        /\ check_rate_limit(u).allowed
        /\ now >= TicksPerYear

AllCeilingsPositive == limits.hourly > 0 /\ limits.daily > 0 /\ limits.monthly > 0

\* C26: a rejection is never permanent.  With three positive ceilings, a
\* rejected user outside the 'special' group is allowed again as the clock
\* advances unless a further usage event of the user is recorded, at the
\* latest when more than an hour has passed since the user's last event and
\* the month has rolled over; with a ceiling of 0 every check is rejected.
C26_RejectionNotPermanent ==
    /\ \A u \in Users : \A n \in 0..MaxEvents :
          (/\ AllCeilingsPositive
           /\ ~check_rate_limit(u).allowed
           /\ Cardinality(UserRows(u)) = n)
          ~> (check_rate_limit(u).allowed \/ Cardinality(UserRows(u)) > n)
    /\ [](\A u \in Users :
            (/\ AllCeilingsPositive
             /\ \A i \in UserRows(u) :
                   /\ usage[i].timestamp < now - TicksPerHour
                   /\ usage[i].timestamp < MonthStart(now))
            => check_rate_limit(u).allowed)
    /\ [](\A u \in Users : ~AllCeilingsPositive => ~check_rate_limit(u).allowed)

\* a user who had reached a ceiling is allowed again after the month rolled
\* over and an hour went by, with all the user's events still in the ledger
C26_Witness ==
    \E u \in Users :
        /\ AllCeilingsPositive
        /\ Cardinality(UserRows(u)) >= limits.hourly
        /\ \E i \in UserRows(u) : usage[i].timestamp = TicksPerMonth - 1
        /\ now = RecoveryHorizon
        /\ check_rate_limit(u).allowed

\* C27: every recorded usage event counts toward the quotas whatever its
\* outcome or kind: the recording of an event, successful or failed, text or
\* image, raises the hourly, the daily and the monthly count of its user by
\* one, so failed requests consume quota like successful ones.
C27_EveryEventCounts ==
    [][\A u \in Users :
         (/\ Len(usage') = Len(usage) + 1
          /\ usage'[Len(usage')].user = u)
         => /\ usage'[Len(usage')].success \in BOOLEAN
            /\ usage'[Len(usage')].request_type \in {"text", "image"}
            /\ get_usage_count(u, 1)' = get_usage_count(u, 1) + 1
            /\ get_daily_count(u)' = get_daily_count(u) + 1
            /\ get_monthly_count(u)' = get_monthly_count(u) + 1]_vars

\* a user is rejected on the strength of failed requests alone, a text one
\* and an image one
C27_Witness ==
    \E u \in Users :
        /\ limits.hourly > 1
        /\ \A i \in UserRows(u) : ~usage[i].success
        /\ \E i \in UserRows(u) : usage[i].request_type = "image"
        /\ \E i \in UserRows(u) : usage[i].request_type = "text"
        /\ \E i \in UserRows(u) : usage[i].error_message \in {ErrTooLarge, ErrNoKey}
        /\ get_daily_count(u) = limits.daily
        /\ ~check_rate_limit(u).allowed

\* C28: the remaining triple in the answer of an allowed ai_parse_food
\* request is the one of the quota check made before the request's own usage
\* event was recorded: when nothing has moved the user's windows between that
\* check and the recording, a check made right after the request reports
\* each component one lower than the answer does.
C28_RemainingIsFromBeforeTheRecord ==
    [][\A s \in Slots, outcome \in Outcomes, u \in Users :
         (/\ req[s].pc = "checked"
          /\ req[s].user = u
          /\ req[s].remaining = check_rate_limit(u).remaining
          /\ ParseFoodResponse(s, outcome).has_remaining
          /\ ParseFoodFinish(s, outcome))
         => /\ ParseFoodResponse(s, outcome).remaining.hourly_remaining
                 = check_rate_limit(u)'.remaining.hourly_remaining + 1
            /\ ParseFoodResponse(s, outcome).remaining.daily_remaining
                 = check_rate_limit(u)'.remaining.daily_remaining + 1
            /\ ParseFoodResponse(s, outcome).remaining.monthly_remaining
                 = check_rate_limit(u)'.remaining.monthly_remaining + 1
            /\ ParseFoodResponse(s, outcome).remaining.unlimited = FALSE]_vars

\* a request of a user who already has a recorded event is between its check
\* and its recording, the windows as the check saw them, about to be answered
\* with a remaining triple
C28_Witness ==
    \E s \in InFlight :
        /\ api_key
        /\ req[s].input \in {"text", "image"}
        /\ UserRows(req[s].user) # {}
        /\ req[s].remaining = check_rate_limit(req[s].user).remaining
        /\ req[s].remaining.hourly_remaining < limits.hourly
        /\ req[s].remaining.hourly_remaining = 1

\* C29: usage events are recorded for members of the 'special' group too,
\* and membership is looked up at every check: right after a user is removed
\* from the group the check counts all the user's events, those recorded
\* during the membership included, and rejects when a ceiling is reached;
\* right after a user is added to the group the check allows, whatever it
\* said before.
C29_ExemptionEvaluatedAfresh ==
    [][\A u \in Users :
         /\ RemoveSpecial(u)
              => /\ usage' = usage
                 /\ ~check_rate_limit(u)'.remaining.unlimited
                 /\ check_rate_limit(u)'.allowed
                      = (/\ get_usage_count(u, 1) < limits.hourly
                         /\ get_daily_count(u) < limits.daily
                         /\ get_monthly_count(u) < limits.monthly)
         /\ AddSpecial(u)
              => /\ check_rate_limit(u)'.allowed
                 /\ check_rate_limit(u)'.remaining.unlimited
         /\ \A s \in Slots :
              (/\ u \in special
               /\ req[s].pc = "checked"
               /\ req[s].user = u
               /\ ParseFoodFinish(s, "ok"))
              => /\ Len(usage') = Len(usage) + 1
                 /\ usage'[Len(usage')].user = u
                 /\ get_usage_count(u, 1)' = get_usage_count(u, 1) + 1
                 /\ get_daily_count(u)' = get_daily_count(u) + 1
                 /\ get_monthly_count(u)' = get_monthly_count(u) + 1]_vars

\* a user no longer in the group is rejected with more events in the hour
\* than overlapping requests alone could have put there: they were recorded
\* while the user was exempt
C29_Witness ==
    \E u \in SpecialCandidates \ special :
        /\ limits.hourly > 0
        /\ get_usage_count(u, 1) > limits.hourly + NumSlots - 1
        /\ ~check_rate_limit(u).allowed
        /\ check_rate_limit(u).error_msg = MsgHourly

\* after this step of requester u the rows that were there are still there,
\* every primary key handed out is a stored row, and every new row shows in
\* u's daily recap of its date and, inside the heatmap window, in the
\* activity counts that u's own dashboard draws its heatmap from
CreatedRowsStayAndShow(u) ==
    LET newDiet == dietary' \ dietary
        newEx == exercise' \ exercise
        Shown(counts, e, rows) ==
            (e.date >= HeatmapStart /\ e.date <= HeatmapEnd)
               => /\ e.date \in DOMAIN counts
                  /\ counts[e.date] >= Cardinality({x \in rows : x.date = e.date})
    IN  /\ dietary \subseteq dietary' /\ exercise \subseteq exercise'
        /\ Cardinality(newDiet) = seq'.dietary - seq.dietary
        /\ Cardinality(newEx) = seq'.exercise - seq.exercise
        /\ Cardinality(newDiet) + Cardinality(newEx) > 0
        /\ \A e \in newDiet :
              e \in DailyRecapResponse(u, OkDate(e.date), NoUserId)'.dietary
        /\ \A e \in newEx :
              e \in DailyRecapResponse(u, OkDate(e.date), NoUserId)'.exercise
        /\ \A counts \in {ActivityCounts(TargetUser(u, FALSE))'} :
              /\ \A e \in newDiet : Shown(counts, e, newDiet)
              /\ \A e \in newEx : Shown(counts, e, newEx)

\* C30: import_json and ai_save_food are not all-or-nothing: when an item
\* fails after earlier items of the request were created, the answer is
\* success = false, the entries created before the failure stay stored and
\* show in later daily_recap and dashboard results.
C30_ImportNotAtomic ==
    [][\A data \in ImportDocs : \A u \in Users :
         /\ (data.kind = "list" /\ ImportJson(u, data) /\ Raises(data))
              => /\ ~ImportJsonResponse(u, data).success
                 /\ CreatedRowsStayAndShow(u)
         /\ (ai_enabled[u] /\ data.kind \in {"list", "dict"} /\ AISaveFood(u, data)
                /\ Raises(data))
              => /\ ~AISaveFoodResponse(u, data).success
                 /\ CreatedRowsStayAndShow(u)]_vars

\* the one entry created before the unstorable item of a failed request is
\* stored and counted in its owner's recap of the day; nothing of the rest
\* of the request exists
C30_Witness ==
    \E u \in Users :
        /\ dietary = {[id |-> 1, user |-> u, date |-> 0, calories |-> 300]}
        /\ exercise = {}
        /\ seq.dietary = 1 /\ seq.exercise = 0
        /\ ~ImportJsonResponse(u, FailingDoc).success
        /\ DailyRecapResponse(u, OkDate(0), NoUserId).total_calories_in = 300

====
